---- MODULE Spec2Model ----
(***************************************************************************)
(* QSTEEL API (Express handlers of apps/api, held in                       *)
(* src/apps/web/src/app/layout.tsx lines 107-883): the hash-chained        *)
(* ledger, the dispatch handlers that append to it and persist to the      *)
(* optional store (prisma), and the cache-aside scoring / KPI endpoints    *)
(* over the optional cache (redis).                                        *)
(*                                                                         *)
(* Node runs one handler at a time: a handler runs without interruption    *)
(* up to its next await, so each action below is one such run-to-await     *)
(* piece of a handler.                                                     *)
(***************************************************************************)
EXTENDS Integers, Sequences, FiniteSets, TLC

\* ------------------------------------------------------------------ bounds
\* number of requests the server receives in one behaviour
MaxReq == 3
\* Date.now() advances in steps of TickStep seconds up to MaxClock
TickStep == 15
MaxClock == 30

Req == 1..MaxReq
\* the requests that may be calls of the cache-aside endpoints
MaxScoreReq == 2
ScoreReq == 1..(IF MaxScoreReq < MaxReq THEN MaxScoreReq ELSE MaxReq)

\* ------------------------------------------------------------ JSON values
\* A JavaScript value: a string, a number or undefined.
JStr(s) == [str |-> s]
JNum(n) == [num |-> n]
JUndef == [undef |-> TRUE]

IsStr(v) == DOMAIN v = {"str"}
IsNum(v) == DOMAIN v = {"num"}

\* JavaScript truthiness, as used by `!rakeId` and `x || d`.
Falsy(v) == v = JUndef \/ v = JStr("") \/ v = JNum(0)
OrElse(v, d) == IF Falsy(v) THEN d ELSE v

\* A JavaScript object: its own properties in insertion order.
Prop(k, v) == [k |-> k, v |-> v]

HasKey(obj, k) == \E i \in 1..Len(obj) : obj[i].k = k
Get(obj, k) ==
  IF HasKey(obj, k)
  THEN obj[CHOOSE i \in 1..Len(obj) : obj[i].k = k].v
  ELSE JUndef

\* obj without property k (the stored block without its hash)
RECURSIVE Without(_, _)
Without(obj, k) ==
  IF obj = << >> THEN << >>
  ELSE IF Head(obj).k = k THEN Without(Tail(obj), k)
  ELSE << Head(obj) >> \o Without(Tail(obj), k)

\* JSON.stringify of a value
StringifyValue(v) ==
  IF IsStr(v) THEN "\"" \o v.str \o "\"" ELSE ToString(v.num)

\* JSON.stringify of an object: properties in insertion order, a property
\* whose value is undefined is left out.
RECURSIVE StringifyProps(_, _)
StringifyProps(obj, first) ==
  IF obj = << >> THEN ""
  ELSE IF Head(obj).v = JUndef THEN StringifyProps(Tail(obj), first)
  ELSE (IF first THEN "" ELSE ",")
         \o "\"" \o Head(obj).k \o "\":" \o StringifyValue(Head(obj).v)
         \o StringifyProps(Tail(obj), FALSE)

Stringify(obj) == "{" \o StringifyProps(obj, TRUE) \o "}"

\* crypto.createHash('sha256').update(s).digest('hex'): an ideal hash, one
\* digest per input, and no digest is the text GENESIS.
Sha256HexNoUpdate(s) == "sha256()"
Sha256Hex(s) == "sha256(" \o s \o ")"

GENESIS == "GENESIS"

\* ---------------------------------------------------------------- ledger
\* the hash the next block links to
LastHashOffByOne(l) == IF Len(l) > 1 THEN Get(l[Len(l) - 1], "hash").str ELSE GENESIS
LastHash(l) == IF Len(l) > 0 THEN Get(l[Len(l)], "hash").str ELSE GENESIS

\* the block appendLedger builds from entry, the tail hash and Date.now()
MakeBlockNoTs(entry, prevHash, ts) ==
  LET payload == entry \o << Prop("prevHash", JStr(prevHash)), Prop("ts", JNum(ts)) >>
      hash == Sha256Hex(Stringify(entry \o << Prop("prevHash", JStr(prevHash)) >>))
  IN payload \o << Prop("hash", JStr(hash)) >>
MakeBlockNoPayload(entry, prevHash, ts) ==
  LET payload == entry \o << Prop("prevHash", JStr(prevHash)), Prop("ts", JNum(ts)) >>
      hash == Sha256Hex(Stringify(<< Prop("prevHash", JStr(prevHash)), Prop("ts", JNum(ts)) >>))
  IN payload \o << Prop("hash", JStr(hash)) >>
MakeBlock(entry, prevHash, ts) ==
  LET payload == entry \o << Prop("prevHash", JStr(prevHash)), Prop("ts", JNum(ts)) >>
      hash == Sha256Hex(Stringify(payload))
  IN payload \o << Prop("hash", JStr(hash)) >>

\* appendLedger(entry): the block pushed
NewBlockUnlinked(l, entry, ts) == MakeBlock(entry, GENESIS, ts)
NewBlock(l, entry, ts) == MakeBlock(entry, LastHash(l), ts)

DispatchEntry(rakeId, body, actor) ==
  << Prop("type", JStr("DISPATCH")), Prop("rakeId", rakeId),
     Prop("from", body.from), Prop("to", body.to), Prop("cargo", body.cargo),
     Prop("tonnage", body.tonnage), Prop("actor", JStr(actor)) >>

LoadingEntry(code, actor) ==
  << Prop("type", JStr("LOADING_CONFIRMED")), Prop("rakeId", JStr(code)),
     Prop("actor", JStr(actor)) >>

\* ------------------------------------------------------------------ state
VARIABLES
  now,        \* Date.now(), in seconds
  prisma,     \* TRUE when initPrisma connected the store client
  redis,      \* TRUE when initRedis connected the cache client
  ledger,     \* the ledger array: a sequence of blocks
  dbDispatch, \* rows of the store's dispatch table, in creation order
  dbRake,     \* the store's rake table: code -> status ("NONE": no such row)
  cache,      \* the cache backend: key -> entry
  pc,         \* per request: where its handler is
  req,        \* per request: the request received
  loc,        \* per request: the handler's local variables
  resp,       \* per request: the response sent
  tamperedAt, \* integrity test: position of the block altered in place, 0 = none
  verdict     \* integrity test: the last verify() call and the chain it saw

vars == << now, prisma, redis, ledger, dbDispatch, dbRake, cache, pc, req, loc, resp,
          tamperedAt, verdict >>

\* the variables of the integrity test, which no handler touches
testVars == << tamperedAt, verdict >>

\* req.user.email of the authenticated caller (auth() has let the request in)
Actors == { "yard@sail.test" }

RakeCodes == { "RK001" }

\* request bodies of the dispatch endpoints (without rakeId): a field the
\* client left out is undefined
Bodies ==
  { [from |-> JStr("BKSC"), to |-> JUndef, cargo |-> JStr("ore"),
     tonnage |-> JNum(3000)] }

\* what a client may send as rakeId in the body of POST /ledger/dispatch
RakeIdInputs == { JUndef } \cup { JStr(c) : c \in RakeCodes }

NoReq == [kind |-> "none"]
NoLoc == [none |-> TRUE]
NoResp == [status |-> 0]
NoVerdict == [none |-> TRUE]

Init ==
  /\ now = 0
  /\ prisma = FALSE
  /\ redis = FALSE
  /\ ledger = << >>
  /\ dbDispatch = << >>
  /\ dbRake = [c \in RakeCodes |-> "PENDING"]
  /\ cache = << >>
  /\ pc = [r \in Req |-> "idle"]
  /\ req = [r \in Req |-> NoReq]
  /\ loc = [r \in Req |-> NoLoc]
  /\ resp = [r \in Req |-> NoResp]
  /\ tamperedAt = 0
  /\ verdict = NoVerdict

\* requests arrive one after the other: request r arrives after request r-1
Arrives(r) == pc[r] = "idle" /\ (IF r = 1 THEN TRUE ELSE pc[r - 1] # "idle")

\* -------------------------------------------------------------- environment
Tick ==
  /\ now + TickStep <= MaxClock
  /\ now' = now + TickStep
  /\ UNCHANGED << prisma, redis, ledger, dbDispatch, dbRake, cache, pc, req, loc, resp, testVars >>

\* initPrisma: p.$connect() resolved
PrismaConnected ==
  /\ ~prisma
  /\ prisma' = TRUE
  /\ UNCHANGED << now, redis, ledger, dbDispatch, dbRake, cache, pc, req, loc, resp, testVars >>

\* initRedis: client.ping() resolved
RedisConnected ==
  /\ ~redis
  /\ redis' = TRUE
  /\ UNCHANGED << now, prisma, ledger, dbDispatch, dbRake, cache, pc, req, loc, resp, testVars >>

\* ------------------------------------------------------- ledger endpoints
\* the validation of POST /ledger/dispatch
RakeIdNeverMissing(rakeId) == FALSE
RakeIdMissing(rakeId) == Falsy(rakeId)

\* (taken one position too far: the hash of the newest block)
StorePrevHashOfLast(l) == IF Len(l) > 0 THEN Get(l[Len(l)], "hash").str ELSE GENESIS

\* the prevHash processDispatch writes to the store
StorePrevHash(l) == IF Len(l) > 1 THEN Get(l[Len(l) - 1], "hash").str ELSE GENESIS

\* processDispatch up to its first await (or to its return when there is no
\* store): the block is appended, then the dispatch row's create is issued
ProcessDispatchBegin(r, rakeId, body, actor) ==
  LET block == NewBlock(ledger, DispatchEntry(rakeId, body, actor), now)
      l2 == Append(ledger, block)
  IN /\ ledger' = l2
     /\ IF prisma
        THEN /\ pc' = [pc EXCEPT ![r] = "create"]
             /\ loc' = [loc EXCEPT ![r] =
                         [block |-> block, pos |-> Len(l2), prevHash |-> StorePrevHash(l2)]]
             /\ resp' = resp
        ELSE /\ pc' = [pc EXCEPT ![r] = "done"]
             /\ loc' = [loc EXCEPT ![r] = [block |-> block, pos |-> Len(l2)]]
             /\ resp' = [resp EXCEPT ![r] = [status |-> 200, body |-> block]]

\* POST /ledger/dispatch
LedgerDispatch(r) ==
  /\ Arrives(r)
  /\ \E actor \in Actors, rakeId \in RakeIdInputs, body \in Bodies :
       /\ req' = [req EXCEPT ![r] =
                   [kind |-> "ledgerDispatch", rakeId |-> rakeId, body |-> body,
                    actor |-> actor]]
       /\ IF RakeIdMissing(rakeId)
          THEN /\ pc' = [pc EXCEPT ![r] = "done"]
               /\ resp' = [resp EXCEPT ![r] = [status |-> 400, error |-> "rakeId required"]]
               /\ UNCHANGED << ledger, loc >>
          ELSE ProcessDispatchBegin(r, rakeId, body, actor)
  /\ UNCHANGED << now, prisma, redis, dbDispatch, dbRake, cache, testVars >>

\* POST /yard/rake/:code/dispatch
YardDispatch(r) ==
  /\ Arrives(r)
  /\ \E actor \in Actors, code \in RakeCodes, body \in Bodies :
       /\ req' = [req EXCEPT ![r] =
                   [kind |-> "yardDispatch", rakeId |-> JStr(code), body |-> body,
                    actor |-> actor]]
       /\ ProcessDispatchBegin(r, JStr(code), body, actor)
  /\ UNCHANGED << now, prisma, redis, dbDispatch, dbRake, cache, testVars >>

\* POST /yard/rake/:code/confirm-loading
ConfirmLoading(r) ==
  /\ Arrives(r)
  /\ \E actor \in Actors, code \in RakeCodes :
       /\ req' = [req EXCEPT ![r] =
                   [kind |-> "confirmLoading", rakeId |-> JStr(code), actor |-> actor]]
       /\ pc' = [pc EXCEPT ![r] = "done"]
       /\ LET block == NewBlock(ledger, LoadingEntry(code, actor), now)
          IN /\ ledger' = Append(ledger, block)
             /\ loc' = [loc EXCEPT ![r] = [block |-> block, pos |-> Len(ledger) + 1]]
             /\ resp' = [resp EXCEPT ![r] = [status |-> 200, body |-> block]]
  /\ UNCHANGED << now, prisma, redis, dbDispatch, dbRake, cache, testVars >>

\* the rake code a rakeId names in the store
RakeCode(rakeId) == IF IsStr(rakeId) THEN rakeId.str ELSE ""
RakeExists(rakeId) == RakeCode(rakeId) \in DOMAIN dbRake /\ dbRake[RakeCode(rakeId)] # "NONE"

\* the row prisma.dispatch.create writes
DispatchRow(r) ==
  [rake |-> RakeCode(req[r].rakeId),
   from |-> OrElse(req[r].body.from, JStr("")),
   to |-> OrElse(req[r].body.to, JStr("")),
   cargo |-> OrElse(req[r].body.cargo, JStr("")),
   tonnage |-> OrElse(req[r].body.tonnage, JNum(0)),
   hash |-> Get(loc[r].block, "hash").str,
   prevHash |-> loc[r].prevHash]

\* processDispatch: prisma.dispatch.create resolved; rake.update is issued
DispatchCreated(r) ==
  /\ pc[r] = "create"
  /\ RakeExists(req[r].rakeId)
  /\ dbDispatch' = Append(dbDispatch, DispatchRow(r))
  /\ pc' = [pc EXCEPT ![r] = "update"]
  /\ UNCHANGED << now, prisma, redis, ledger, dbRake, cache, req, loc, resp, testVars >>

DispatchCreateUncaught(r) ==
  /\ pc[r] = "create"
  /\ pc' = [pc EXCEPT ![r] = "done"]
  /\ resp' = [resp EXCEPT ![r] = [status |-> 500, error |-> "Internal Server Error"]]
  /\ UNCHANGED << now, prisma, redis, ledger, dbDispatch, dbRake, cache, req, loc, testVars >>
\* prisma.dispatch.create rejected and the rake update was issued all the same
DispatchCreateFailedGoesOn(r) ==
  /\ pc[r] = "create"
  /\ pc' = [pc EXCEPT ![r] = "update"]
  /\ UNCHANGED << now, prisma, redis, ledger, dbDispatch, dbRake, cache, req, loc, resp, testVars >>

\* processDispatch: prisma.dispatch.create rejected (no such rake, store
\* down); the catch logs and the block is returned
DispatchCreateFailed(r) ==
  /\ pc[r] = "create"
  /\ pc' = [pc EXCEPT ![r] = "done"]
  /\ resp' = [resp EXCEPT ![r] = [status |-> 200, body |-> loc[r].block]]
  /\ UNCHANGED << now, prisma, redis, ledger, dbDispatch, dbRake, cache, req, loc, testVars >>

\* processDispatch: prisma.rake.update resolved; the block is returned
RakeUpdated(r) ==
  /\ pc[r] = "update"
  /\ RakeExists(req[r].rakeId)
  /\ dbRake' = [dbRake EXCEPT ![RakeCode(req[r].rakeId)] = "DISPATCHED"]
  /\ pc' = [pc EXCEPT ![r] = "done"]
  /\ resp' = [resp EXCEPT ![r] = [status |-> 200, body |-> loc[r].block]]
  /\ UNCHANGED << now, prisma, redis, ledger, dbDispatch, cache, req, loc, testVars >>

\* processDispatch: prisma.rake.update rejected
RakeUpdateFailed(r) ==
  /\ pc[r] = "update"
  /\ pc' = [pc EXCEPT ![r] = "done"]
  /\ resp' = [resp EXCEPT ![r] = [status |-> 200, body |-> loc[r].block]]
  /\ UNCHANGED << now, prisma, redis, ledger, dbDispatch, dbRake, cache, req, loc, testVars >>

RECURSIVE Reverse(_)
Reverse(q) == IF q = << >> THEN << >> ELSE Append(Reverse(Tail(q)), Head(q))
ListLedgerNewestFirst(r) ==
  /\ Arrives(r)
  /\ req' = [req EXCEPT ![r] = [kind |-> "ledgerList"]]
  /\ pc' = [pc EXCEPT ![r] = "done"]
  /\ ledger' = Reverse(ledger)
  /\ resp' = [resp EXCEPT ![r] =
               [status |-> 200, body |-> [length |-> Len(ledger), chain |-> Reverse(ledger)]]]
  /\ UNCHANGED << now, prisma, redis, dbDispatch, dbRake, cache, loc, testVars >>
\* GET /ledger
ListLedger(r) ==
  /\ Arrives(r)
  /\ req' = [req EXCEPT ![r] = [kind |-> "ledgerList"]]
  /\ pc' = [pc EXCEPT ![r] = "done"]
  /\ resp' = [resp EXCEPT ![r] =
               [status |-> 200, body |-> [length |-> Len(ledger), chain |-> ledger]]]
  /\ UNCHANGED << now, prisma, redis, ledger, dbDispatch, dbRake, cache, loc, testVars >>

\* ------------------------------------------------------ integrity check
\* obj with obj[k] = v assigned: an own property keeps its place, a new one
\* goes last
SetProp(obj, k, v) ==
  IF HasKey(obj, k)
  THEN [i \in 1..Len(obj) |-> IF obj[i].k = k THEN Prop(k, v) ELSE obj[i]]
  ELSE Append(obj, Prop(k, v))

\* the digest recomputed from a stored block alone: the block without its
\* hash property is the payload appendLedger serialized
Recomputed(block) == Sha256Hex(Stringify(Without(block, "hash")))

HashOk(l, i) == Get(l[i], "hash") = JStr(Recomputed(l[i]))
LinkOk(l, i) == IF i = 1 THEN TRUE ELSE Get(l[i], "prevHash") = Get(l[i - 1], "hash")

\* verify(): the walk from the first block to the first failing check
RECURSIVE VerifyFrom(_, _)
VerifyFrom(l, i) ==
  IF i > Len(l) THEN [valid |-> TRUE]
  ELSE IF HashOk(l, i) /\ LinkOk(l, i) THEN VerifyFrom(l, i + 1)
  ELSE [valid |-> FALSE, firstInvalidIndex |-> i - 1]

verify(l) == VerifyFrom(l, 1)

\* a caller runs verify() on the chain as it is now
Verify ==
  /\ verdict' = [len |-> Len(ledger), tampered |-> tamperedAt, result |-> verify(ledger)]
  /\ UNCHANGED << now, prisma, redis, ledger, dbDispatch, dbRake, cache, pc, req, loc,
                  resp, tamperedAt >>

\* what the tamper test writes: a payload field and its new value
TamperWrites == { << "rakeId", JStr("RK999") >>, << "tonnage", JNum(1) >> }

\* the tamper test: one payload field of one stored block is overwritten in
\* place, the stored hashes are left as they are
Tamper ==
  /\ tamperedAt = 0
  /\ \E k \in 1..Len(ledger), w \in TamperWrites :
       /\ Get(ledger[k], w[1]) # w[2]
       /\ ledger' = [ledger EXCEPT ![k] = SetProp(ledger[k], w[1], w[2])]
       /\ tamperedAt' = k
  /\ UNCHANGED << now, prisma, redis, dbDispatch, dbRake, cache, pc, req, loc, resp,
                  verdict >>

NextLedger ==
  \/ Tick
  \/ PrismaConnected
  \/ \E r \in Req :
       \/ LedgerDispatch(r)
       \/ YardDispatch(r)
       \/ ConfirmLoading(r)
       \/ DispatchCreated(r)
       \/ DispatchCreateFailed(r)
       \/ RakeUpdated(r)
       \/ RakeUpdateFailed(r)
       \/ ListLedger(r)

SpecLedger == Init /\ [][NextLedger]_vars

\* the ledger under the integrity test: appends, verify() calls and one
\* tampering
NextTamper ==
  \/ Tick
  \/ Verify
  \/ Tamper
  \/ \E r \in Req : LedgerDispatch(r) \/ YardDispatch(r) \/ ConfirmLoading(r)

SpecTamper == Init /\ [][NextTamper]_vars

\* ------------------------------------------------------- scoring: model
\* a JavaScript number that is NaN, and JSON's null
JNaN == [nan |-> TRUE]
JNull == [null |-> TRUE]

\* String.prototype.toUpperCase / toLowerCase on the texts requests carry
\* toUpperCase left out
ToUpperCaseNone(s) == s

ToUpperCase(s) ==
  CASE s = "bksc-rou" -> "BKSC-ROU"
    [] s = "Bksc-Rou" -> "BKSC-ROU"
    [] s = "bksc-bphb" -> "BKSC-BPHB"
    [] s = "bksc-dgr" -> "BKSC-DGR"
    [] s = "default" -> "DEFAULT"
    [] s = "unknown-key" -> "UNKNOWN-KEY"
    [] OTHER -> s
ToLowerCase(s) ==
  CASE s = "ORE" -> "ore"
    [] s = "COAL" -> "coal"
    [] s = "Electric" -> "electric"
    [] s = "Dispatched" -> "dispatched"
    [] s = "Loading" -> "loading"
    [] s = "Under Construction" -> "under construction"
    [] OTHER -> s

\* template-literal text of a number
NumberText(n) == IF n = JNaN THEN "NaN" ELSE ToString(n.num)

\* the cache key of GET /map/routes
RoutesCacheKey(cargo, loco, grade, tonnage, routeKey) ==
  "routes:v3:c:" \o cargo \o ":l:" \o loco \o ":g:" \o NumberText(grade)
    \o ":t:" \o NumberText(tonnage) \o ":rk:" \o (IF routeKey = "" THEN "default" ELSE routeKey)

KpisCacheKey == "kpis:v1"

\* cacheSet's ttlSeconds of the two endpoints
RoutesTtl == 30
KpisTtl == 60

statuses == << "clear", "busy", "congested" >>
StatusSet == { statuses[i] : i \in 1..Len(statuses) }

\* the presets table: route key -> station codes
presets ==
  [k \in { "BKSC-DGR", "BKSC-ROU", "BKSC-BPHB" } |->
     CASE k = "BKSC-DGR" -> << "BKSC", "Dhanbad", "Asansol", "Andal", "DGR" >>
       [] k = "BKSC-ROU" -> << "BKSC", "Purulia", "ROU" >>
       [] k = "BKSC-BPHB" -> << "BKSC", "Norla", "BPHB" >>]

\* the stations of the STN table
STN == { "BKSC", "DGR", "Dhanbad", "Asansol", "Andal", "ROU", "Purulia", "BPHB", "Norla" }

\* the route table of the store: key -> station codes ordered by seq; the
\* stations carry the coordinates of the STN table. One route of two
\* waypoints, one of a single waypoint, one whose two waypoints coincide,
\* one there and back
DbRoutes ==
  [k \in { "BKSC-ROU", "BKSC-BPHB", "BKSC-BKSC", "BKSC-ROU-BKSC" } |->
     CASE k = "BKSC-ROU" -> << "BKSC", "ROU" >>
       [] k = "BKSC-BPHB" -> << "BKSC" >>
       [] k = "BKSC-BKSC" -> << "BKSC", "BKSC" >>
       [] k = "BKSC-ROU-BKSC" -> << "BKSC", "ROU", "BKSC" >>]

\* haversine(a, b) in millimetres (km * 10^6, to the nearest), for the
\* coordinates of the STN table and of the default segments
haversine(a, b) ==
  CASE a = "BKSC" /\ b = "Dhanbad" -> 32228746
    [] a = "Dhanbad" /\ b = "Asansol" -> 56706293
    [] a = "Asansol" /\ b = "Andal" -> 29153470
    [] a = "Andal" /\ b = "DGR" -> 7895802
    [] a = "BKSC" /\ b = "Purulia" -> 42311555
    [] a = "Purulia" /\ b = "ROU" -> 197478852
    [] a = "BKSC" /\ b = "Norla" -> 606802810
    [] a = "Norla" /\ b = "BPHB" -> 268398692
    [] a = "BKSC" /\ b = "ROU" -> 207062881
    [] a = "ROU" /\ b = "BKSC" -> 207062881
    [] a = "YardA" /\ b = "YardB" -> 4523911
    [] a = "YardA" /\ b = "Alt" -> 8393811
    [] a = b -> 0

\* x / d rounded to the nearest integer, halves up (toFixed, Math.round), x >= 0
RoundDiv(x, d) == (2 * x + d) \div (2 * d)

Clamp(x, lo, hi) == IF x < lo THEN lo ELSE IF x > hi THEN hi ELSE x

\* baseByCargo, in 10^-3 t/km
baseKm(cargo) ==
  CASE cargo = "ore" -> 22
    [] cargo = "coal" -> 24
    [] cargo = "steel" -> 20
    [] cargo = "cement" -> 21
    [] OTHER -> 22

\* locoMul = curve[loco] * locoFactor[loco] at the clamped tonnage t, as the
\* fraction num / den:
\*   diesel   (1   + (t - 3000) / 3000 * 0.15) * 1.0 = (t + 17000) / 20000
\*   electric (0.8 + (t - 3000) / 3000 * 0.08) * 0.6 = (t + 27000) / 62500
\*   hybrid   (0.9 + (t - 3000) / 3000 * 0.10) * 0.8 = (t + 24000) / 37500
\*   any other locomotive: 1.0 * 1.0
\* (the curve alone, locoFactor left out)
locoMulCurveOnly(loco, t) ==
  CASE loco = "diesel" -> [num |-> t + 17000, den |-> 20000]
    [] loco = "electric" -> [num |-> t + 27000, den |-> 37500]
    [] loco = "hybrid" -> [num |-> t + 24000, den |-> 30000]
    [] OTHER -> [num |-> 1, den |-> 1]

locoMul(loco, t) ==
  CASE loco = "diesel" -> [num |-> t + 17000, den |-> 20000]
    [] loco = "electric" -> [num |-> t + 27000, den |-> 62500]
    [] loco = "hybrid" -> [num |-> t + 24000, den |-> 37500]
    [] OTHER -> [num |-> 1, den |-> 1]

\* gradeMul without the clamp
gradeMulUnclamped(grade) == 100 + 3 * grade

\* gradeMul, in hundredths
gradeMul(grade) == 100 + 3 * Clamp(grade, 0, 6)

\* efPerKm in 10^-5 t/km: Number((baseKm * locoMul * gradeMul).toFixed(5))
\* (exact arithmetic, rounding half up; where the exact product ends in a
\* half of 10^-5 the floating-point product may fall on either side of it,
\* which none of the inputs drawn here does: ore, diesel, grade 0, tonnage
\* 3000 give 0.02200)
efPerKm(cargo, loco, grade, tonnage) ==
  LET lm == locoMul(loco, Clamp(tonnage, 1000, 6000))
  IN RoundDiv(baseKm(cargo) * gradeMul(grade) * lm.num, lm.den)

\* floor(a * k / 10^8) by four-digit limbs, the product itself being too
\* wide for TLC's integers (a < 2^31, k < 10^6)
MulShift8(a, k) ==
  LET a0 == a % 10000
      a1 == (a \div 10000) % 10000
      a2 == a \div 100000000
      k0 == k % 10000
      k1 == k \div 10000
      c0 == a0 * k0
      c1 == a1 * k0 + a0 * k1 + c0 \div 10000
      c2 == a2 * k0 + a1 * k1 + c1 \div 10000
      c3 == a2 * k1
  IN c3 * 10000 + c2

\* efPerKm of a parsed context, as a number or NaN: a NaN grade makes gradeMul
\* NaN; a NaN tonnage makes every entry of curve NaN, which reaches locoMul
\* for the locomotives of the table only (curve[loco] ?? 1.0)
efPerKmOf(cargo, loco, grade, tonnage) ==
  IF grade = JNaN THEN JNaN
  ELSE IF tonnage = JNaN
       THEN IF loco \in { "diesel", "electric", "hybrid" } THEN JNaN
            ELSE JNum(efPerKm(cargo, loco, grade.num, 3000))
       ELSE JNum(efPerKm(cargo, loco, grade.num, tonnage.num))

\* Number((km * efPerKm * statusFactor).toFixed(3)) in thousandths of a ton,
\* from km in mm, efPerKm in 10^-5 and statusFactor in hundredths
Co2Tons(mm, ef, sf) == (MulShift8(mm, ef * sf) + 50) \div 100

\* statusFactor, in hundredths
statusFactor(st) == IF st = "clear" THEN 100 ELSE IF st = "busy" THEN 110 ELSE 125

\* the segments of a station sequence, with the statuses pick() drew
SegmentsOf(seq, picks) ==
  [i \in 1..(Len(seq) - 1) |->
     [from |-> seq[i], to |-> seq[i + 1], status |-> picks[i],
      label |-> seq[i] \o "→" \o seq[i + 1]]]

\* the ultimate fallback near Bokaro
DefaultSegments(picks) ==
  << [from |-> "YardA", to |-> "YardB", status |-> picks[1], label |-> "YardA→YardB"],
     [from |-> "YardA", to |-> "Alt", status |-> picks[2], label |-> "YardA→Alt"] >>

\* the station sequence the handler scores: the store's when it gave one of
\* 2 stations or more, else the preset's, else none (the fallback segments)
NoSeq == << >>
StationsFor(routeKey, seq) ==
  IF routeKey = "" THEN NoSeq
  ELSE IF Len(seq) >= 2 THEN seq
  ELSE IF routeKey \in DOMAIN presets THEN presets[routeKey]
  ELSE NoSeq

\* the number of pick() calls the handler makes for it
PicksNeeded(routeKey, seq) ==
  IF Len(StationsFor(routeKey, seq)) >= 2 THEN Len(StationsFor(routeKey, seq)) - 1 ELSE 2

SegmentsFor(routeKey, seq, picks) ==
  IF Len(StationsFor(routeKey, seq)) >= 2
  THEN SegmentsOf(StationsFor(routeKey, seq), picks)
  ELSE DefaultSegments(picks)

\* payload.routes with km (hundredths) and co2_tons (thousandths of a ton)
WithEmissions(segs, ef) ==
  [i \in 1..Len(segs) |->
     LET mm == haversine(segs[i].from, segs[i].to)
     IN [from |-> segs[i].from, to |-> segs[i].to, status |-> segs[i].status,
         label |-> segs[i].label,
         km |-> RoundDiv(mm, 10000),
         co2_tons |-> IF ef = JNaN THEN JNaN
                      ELSE JNum(Co2Tons(mm, ef.num, statusFactor(segs[i].status)))]]

\* a < b of two numbers: false when either is NaN
Less(a, b) == a # JNaN /\ b # JNaN /\ a.num < b.num

\* Math.max(a, b): NaN when either is NaN
MathMax(a, b) == IF a = JNaN \/ b = JNaN THEN JNaN ELSE IF a.num >= b.num THEN a ELSE b

\* bestIdx: the reduce that keeps the first least co2_tons (0-based)
\* a reduce that keeps the greater co2_tons
RECURSIVE BestFromGreatest(_, _, _)
BestFromGreatest(routes, i, m) ==
  IF i > Len(routes) THEN m - 1
  ELSE BestFromGreatest(routes, i + 1,
                        IF Less(routes[m].co2_tons, routes[i].co2_tons) THEN i ELSE m)

RECURSIVE BestFrom(_, _, _)
BestFrom(routes, i, m) ==
  IF i > Len(routes) THEN m - 1
  ELSE BestFrom(routes, i + 1, IF Less(routes[i].co2_tons, routes[m].co2_tons) THEN i ELSE m)
bestIdx(routes) == BestFrom(routes, 1, 1)

\* worst: the reduce of Math.max from 0
RECURSIVE WorstFrom(_, _, _)
WorstFrom(routes, i, mx) ==
  IF i > Len(routes) THEN mx
  ELSE WorstFrom(routes, i + 1, MathMax(mx, routes[i].co2_tons))
worst(routes) == WorstFrom(routes, 1, JNum(0))

\* Math.round((1 - best / (worst || best)) * 100): NaN and 0 are falsy,
\* 0 / 0 is NaN
savingsPercent(routes) ==
  LET w == worst(routes)
      b == routes[bestIdx(routes) + 1].co2_tons
      d == IF w # JNaN /\ w # JNum(0) THEN w ELSE b
  IN IF b = JNaN \/ d = JNaN \/ d = JNum(0) THEN JNaN
     ELSE JNum(RoundDiv(100 * (d.num - b.num), d.num))

\* the payload of GET /map/routes
ScorePayload(q, segs) ==
  LET ef == efPerKmOf(q.cargo, q.loco, q.grade, q.tonnage)
      routes == WithEmissions(segs, ef)
  IN [origin |-> "Bokaro",
      routes |-> routes,
      eco |-> [bestIndex |-> bestIdx(routes), savingsPercent |-> savingsPercent(routes)],
      meta |-> [cargo |-> q.cargo, loco |-> q.loco, grade |-> q.grade,
                tonnage |-> q.tonnage, efPerKm |-> ef, routeKey |-> q.routeKey]]

\* JSON.parse(JSON.stringify(v)) of a number: NaN comes back as null
JsonNumber(n) == IF n = JNaN THEN JNull ELSE n

\* JSON.parse(JSON.stringify(payload)): what res.json sends and what the
\* cache gives back
JsonPayload(p) ==
  IF "routes" \in DOMAIN p
  THEN [p EXCEPT !.routes = [i \in 1..Len(p.routes) |->
                               [p.routes[i] EXCEPT !.co2_tons = JsonNumber(@)]],
                 !.eco.savingsPercent = JsonNumber(@),
                 !.meta.efPerKm = JsonNumber(@),
                 !.meta.grade = JsonNumber(@),
                 !.meta.tonnage = JsonNumber(@)]
  ELSE p

\* --------------------------------------------------------- KPIs: model
\* MOCK_DATA.rakes: the status of each rake of the demo dataset
MockRakes == << "Under Construction", "Loading", "Dispatched" >>

CountOf(S) == Cardinality(S)

\* prisma.rake.count({ where: { status } })
RakeCount(status) == CountOf({ c \in DOMAIN dbRake : dbRake[c] = status })

\* utilization as the fraction num / den: dispatched / (dispatched + pending),
\* 0.78 when there is no rake
Utilization(p, d) ==
  IF d + p > 0 THEN [num |-> d, den |-> d + p] ELSE [num |-> 39, den |-> 50]

\* the payload of GET /kpis computed from the store's counts;
\* carbonIntensityPerRake and co2Total in hundredths
KpisPayload(p, d) ==
  LET u == Utilization(p, d)
      raw == RoundDiv(180 * u.den - 120 * u.num, u.den)
      ci == IF raw < 40 THEN 40 ELSE raw
  IN [pendingRakes |-> p, dispatchedRakes |-> d, utilization |-> u,
      carbonIntensityPerRake |-> ci,
      co2Total |-> ci * (IF d = 0 THEN 1 ELSE d),
      ecoSavingsPercent |-> 12]

\* the fallback payload of GET /kpis, from MOCK_DATA
KpisFallback ==
  LET d == CountOf({ i \in 1..Len(MockRakes) : ToLowerCase(MockRakes[i]) = "dispatched" })
      p == CountOf({ i \in 1..Len(MockRakes) : ToLowerCase(MockRakes[i]) # "dispatched" })
  IN [pendingRakes |-> p, dispatchedRakes |-> d, utilization |-> Utilization(p, d),
      carbonIntensityPerRake |-> 98, co2Total |-> 1176, ecoSavingsPercent |-> 12]

\* ------------------------------------------------ cache-aside endpoints
\* the raw query strings of GET /map/routes (a parameter left out is
\* undefined)
RouteQueries ==
  { [cargo |-> JUndef, loco |-> JUndef, grade |-> JUndef, tonnage |-> JUndef,
     routeKey |-> rk] : rk \in { JUndef, JStr("BKSC-ROU") } }

\* String(x || d)
StringOr(v, d) == IF Falsy(v) THEN d ELSE v.str

\* Number(text) of a query string
NumberOfText(t) ==
  CASE t = "0" -> JNum(0)
    [] t = "6" -> JNum(6)
    [] t = "10" -> JNum(10)
    [] t = "3000" -> JNum(3000)
    [] t = "-3" -> JNum(-3)
    [] t = "500" -> JNum(500)
    [] t = "1000" -> JNum(1000)
    [] t = "6000" -> JNum(6000)
    [] t = "9000" -> JNum(9000)
    [] OTHER -> JNaN

\* Number(x || d)
NumberOr(v, d) == IF Falsy(v) THEN JNum(d) ELSE IF IsNum(v) THEN v ELSE NumberOfText(v.str)

\* the context GET /map/routes reads from the query string
ParseQuery(q) ==
  [cargo |-> ToLowerCase(StringOr(q.cargo, "ore")),
   loco |-> ToLowerCase(StringOr(q.loco, "diesel")),
   grade |-> NumberOr(q.grade, 0),
   tonnage |-> NumberOr(q.tonnage, 3000),
   routeKey |-> ToUpperCase(StringOr(q.routeKey, ""))]

\* record r with the fields of f set
With(r, f) == f @@ r

\* a cache entry read at time t: redis has dropped it once its EX has run out
Live(key, t) == key \in DOMAIN cache /\ t < cache[key].exp

\* the handler's locals once the cache key is known and cacheGet is called:
\* cacheGet returns null at once when there is no client, else awaits
\* redis.get
\* (prior, gotAt, getFailed, hit, from, queried, computed, wrote and exp are
\* history: the calls that had been answered when this one arrived, when and
\* how its lookup ended, whose entry it read, which paths it ran and the
\* expiry of the entry it stored)
CacheGetCall(key, ttl, q) ==
  [key |-> key, ttl |-> ttl, q |-> q, getIssued |-> redis,
   prior |-> { p \in Req : pc[p] = "done" }, gotAt |-> 0, getFailed |-> FALSE,
   hit |-> FALSE, from |-> 0, queried |-> FALSE, computed |-> FALSE,
   setIssued |-> FALSE, wrote |-> FALSE, exp |-> 0]

\* the handler has returned: its locals are gone, the history stays
Returned(l) ==
  [key |-> l.key, getIssued |-> l.getIssued, prior |-> l.prior, gotAt |-> l.gotAt,
   getFailed |-> l.getFailed, hit |-> l.hit, from |-> l.from, queried |-> l.queried,
   computed |-> l.computed, setIssued |-> l.setIssued, wrote |-> l.wrote, exp |-> l.exp]

\* GET /map/routes arrives with one of the given query strings
MapRoutesWith(r, queries) ==
  /\ Arrives(r)
  /\ \E query \in queries :
       LET q == ParseQuery(query)
           key == RoutesCacheKey(q.cargo, q.loco, q.grade, q.tonnage, q.routeKey)
       IN /\ req' = [req EXCEPT ![r] = [kind |-> "mapRoutes", query |-> query]]
          /\ loc' = [loc EXCEPT ![r] = CacheGetCall(key, RoutesTtl, q)]
  /\ pc' = [pc EXCEPT ![r] = "cacheGet"]
  /\ UNCHANGED << now, prisma, redis, ledger, dbDispatch, dbRake, cache, resp, testVars >>

\* GET /map/routes arrives
MapRoutes(r) == MapRoutesWith(r, RouteQueries)

\* GET /kpis arrives
Kpis(r) ==
  /\ Arrives(r)
  /\ req' = [req EXCEPT ![r] = [kind |-> "kpis"]]
  /\ loc' = [loc EXCEPT ![r] = CacheGetCall(KpisCacheKey, KpisTtl, NoReq)]
  /\ pc' = [pc EXCEPT ![r] = "cacheGet"]
  /\ UNCHANGED << now, prisma, redis, ledger, dbDispatch, dbRake, cache, resp, testVars >>

\* the segments are built (pick() drawn per segment), scored, and cacheSet is
\* called: it returns at once when there is no client, else awaits redis.set
ScoreAndStore(r, l, seq) ==
  LET q == l.q
  IN \E picks \in [1..PicksNeeded(q.routeKey, seq) -> StatusSet] :
       /\ loc' = [loc EXCEPT ![r] =
                   With(l, [computed |-> TRUE, setIssued |-> redis,
                            payload |-> ScorePayload(q, SegmentsFor(q.routeKey, seq, picks))])]
       /\ pc' = [pc EXCEPT ![r] = "cacheSet"]

\* the KPIs payload is ready and cacheSet is called
KpisStore(r, l, payload) ==
  /\ loc' = [loc EXCEPT ![r] =
              With(l, [computed |-> TRUE, setIssued |-> redis, payload |-> payload])]
  /\ pc' = [pc EXCEPT ![r] = "cacheSet"]

\* the handler after cacheGet gave null
AfterMiss(r, l) ==
  IF req[r].kind = "mapRoutes"
  THEN IF l.q.routeKey # "" /\ prisma
       THEN /\ loc' = [loc EXCEPT ![r] = With(l, [queried |-> TRUE])]
            /\ pc' = [pc EXCEPT ![r] = "find"]
       ELSE ScoreAndStore(r, l, NoSeq)
  ELSE IF prisma
       THEN /\ loc' = [loc EXCEPT ![r] = With(l, [queried |-> TRUE])]
            /\ pc' = [pc EXCEPT ![r] = "countPending"]
       ELSE KpisStore(r, l, KpisFallback)

\* cacheGet gave a value and the handler went on all the same
CacheHitIgnored(r) ==
  /\ pc[r] = "cacheGet"
  /\ loc[r].getIssued
  /\ Live(loc[r].key, now)
  /\ AfterMiss(r, With(loc[r], [gotAt |-> now]))
  /\ UNCHANGED << now, prisma, redis, ledger, dbDispatch, dbRake, cache, req, resp, testVars >>

\* cacheGet gave a value: if (cached) return res.json(cached)
CacheHit(r) ==
  /\ pc[r] = "cacheGet"
  /\ loc[r].getIssued
  /\ Live(loc[r].key, now)
  /\ loc' = [loc EXCEPT ![r] =
              Returned(With(@, [hit |-> TRUE, gotAt |-> now, from |-> cache[loc[r].key].by]))]
  /\ resp' = [resp EXCEPT ![r] = [status |-> 200, body |-> JsonPayload(cache[loc[r].key].val)]]
  /\ pc' = [pc EXCEPT ![r] = "done"]
  /\ UNCHANGED << now, prisma, redis, ledger, dbDispatch, dbRake, cache, req, testVars >>

\* cacheGet gave null: no client, no live entry under the key
CacheMiss(r) ==
  /\ pc[r] = "cacheGet"
  /\ ~loc[r].getIssued \/ ~Live(loc[r].key, now)
  /\ AfterMiss(r, With(loc[r], [gotAt |-> now]))
  /\ UNCHANGED << now, prisma, redis, ledger, dbDispatch, dbRake, cache, req, resp, testVars >>

\* redis.get threw: cacheGet catches and gives null
CacheGetFailed(r) ==
  /\ pc[r] = "cacheGet"
  /\ loc[r].getIssued
  /\ AfterMiss(r, With(loc[r], [gotAt |-> now, getFailed |-> TRUE]))
  /\ UNCHANGED << now, prisma, redis, ledger, dbDispatch, dbRake, cache, req, resp, testVars >>

\* prisma.route.findUnique resolved and the handler left its answer unused
RouteFoundUnused(r) ==
  /\ pc[r] = "find"
  /\ LET route == IF loc[r].q.routeKey \in DOMAIN DbRoutes
                  THEN DbRoutes[loc[r].q.routeKey] ELSE NoSeq
     IN ScoreAndStore(r, With(loc[r], [route |-> route]), NoSeq)
  /\ UNCHANGED << now, prisma, redis, ledger, dbDispatch, dbRake, cache, req, resp, testVars >>

\* prisma.route.findUnique resolved: the route's stations, or null (the
\* local route holds them until the handler returns)
RouteFound(r) ==
  /\ pc[r] = "find"
  /\ LET route == IF loc[r].q.routeKey \in DOMAIN DbRoutes
                  THEN DbRoutes[loc[r].q.routeKey] ELSE NoSeq
     IN ScoreAndStore(r, With(loc[r], [route |-> route]), route)
  /\ UNCHANGED << now, prisma, redis, ledger, dbDispatch, dbRake, cache, req, resp, testVars >>

\* prisma.route.findUnique threw and the error reached the caller
RouteFindFailedUncaught(r) ==
  /\ pc[r] = "find"
  /\ resp' = [resp EXCEPT ![r] = [status |-> 500, body |-> "findUnique failed"]]
  /\ loc' = [loc EXCEPT ![r] = Returned(@)]
  /\ pc' = [pc EXCEPT ![r] = "done"]
  /\ UNCHANGED << now, prisma, redis, ledger, dbDispatch, dbRake, cache, req, testVars >>

\* prisma.route.findUnique threw: ignored, seq stays null
RouteFindFailed(r) ==
  /\ pc[r] = "find"
  /\ ScoreAndStore(r, loc[r], NoSeq)
  /\ UNCHANGED << now, prisma, redis, ledger, dbDispatch, dbRake, cache, req, resp, testVars >>

\* GET /kpis: the count of PENDING rakes resolved
PendingCounted(r) ==
  /\ pc[r] = "countPending"
  /\ loc' = [loc EXCEPT ![r] = With(@, [pending |-> RakeCount("PENDING")])]
  /\ pc' = [pc EXCEPT ![r] = "countDispatched"]
  /\ UNCHANGED << now, prisma, redis, ledger, dbDispatch, dbRake, cache, req, resp, testVars >>

\* GET /kpis: the count of DISPATCHED rakes resolved
DispatchedCounted(r) ==
  /\ pc[r] = "countDispatched"
  /\ KpisStore(r, loc[r], KpisPayload(loc[r].pending, RakeCount("DISPATCHED")))
  /\ UNCHANGED << now, prisma, redis, ledger, dbDispatch, dbRake, cache, req, resp, testVars >>

\* GET /kpis: a count threw: the catch falls through to the fallback payload
CountFailed(r) ==
  /\ pc[r] \in { "countPending", "countDispatched" }
  /\ KpisStore(r, loc[r], KpisFallback)
  /\ UNCHANGED << now, prisma, redis, ledger, dbDispatch, dbRake, cache, req, resp, testVars >>

\* an entry that expires at once when the value is the KPI fallback
CacheEntryFallbackShort(value, ttl, r) ==
  [val |-> JsonPayload(value), exp |-> IF value = KpisFallback THEN now ELSE now + ttl, by |-> r]

\* the entry redis.set(key, JSON.stringify(value), 'EX', ttl) leaves
CacheEntryNoTtl(value, ttl, r) == [val |-> JsonPayload(value), exp |-> now, by |-> r]
\* (by: history, the call that stored it)
CacheEntry(value, ttl, r) == [val |-> JsonPayload(value), exp |-> now + ttl, by |-> r]

\* cacheSet storing under one key for every context
CacheSetDoneSharedKey(r) ==
  /\ pc[r] = "cacheSet"
  /\ IF loc[r].setIssued
     THEN /\ cache' = ("routes:v3" :> CacheEntry(loc[r].payload, loc[r].ttl, r)) @@ cache
          /\ loc' = [loc EXCEPT ![r] =
                      Returned(With(@, [wrote |-> TRUE, exp |-> now + loc[r].ttl]))]
     ELSE /\ loc' = [loc EXCEPT ![r] = Returned(@)]
          /\ UNCHANGED cache
  /\ resp' = [resp EXCEPT ![r] = [status |-> 200, body |-> JsonPayload(loc[r].payload)]]
  /\ pc' = [pc EXCEPT ![r] = "done"]
  /\ UNCHANGED << now, prisma, redis, ledger, dbDispatch, dbRake, req, testVars >>

\* cacheSet returned after redis.set stored the entry (or at once, when
\* there was no client): the payload is sent
CacheSetDone(r) ==
  /\ pc[r] = "cacheSet"
  /\ IF loc[r].setIssued
     THEN /\ cache' = (loc[r].key :> CacheEntry(loc[r].payload, loc[r].ttl, r)) @@ cache
          /\ loc' = [loc EXCEPT ![r] =
                      Returned(With(@, [wrote |-> TRUE, exp |-> now + loc[r].ttl]))]
     ELSE /\ loc' = [loc EXCEPT ![r] = Returned(@)]
          /\ UNCHANGED cache
  /\ resp' = [resp EXCEPT ![r] = [status |-> 200, body |-> JsonPayload(loc[r].payload)]]
  /\ pc' = [pc EXCEPT ![r] = "done"]
  /\ UNCHANGED << now, prisma, redis, ledger, dbDispatch, dbRake, req, testVars >>

\* redis.set threw and the error reached the handler
CacheSetFailedUncaught(r) ==
  /\ pc[r] = "cacheSet"
  /\ loc[r].setIssued
  /\ resp' = [resp EXCEPT ![r] = [status |-> 500, body |-> "redis.set failed"]]
  /\ loc' = [loc EXCEPT ![r] = Returned(@)]
  /\ pc' = [pc EXCEPT ![r] = "done"]
  /\ UNCHANGED << now, prisma, redis, ledger, dbDispatch, dbRake, cache, req, testVars >>

\* redis.set threw: cacheSet swallows it and the payload is sent
CacheSetFailed(r) ==
  /\ pc[r] = "cacheSet"
  /\ loc[r].setIssued
  /\ resp' = [resp EXCEPT ![r] = [status |-> 200, body |-> JsonPayload(loc[r].payload)]]
  /\ loc' = [loc EXCEPT ![r] = Returned(@)]
  /\ pc' = [pc EXCEPT ![r] = "done"]
  /\ UNCHANGED << now, prisma, redis, ledger, dbDispatch, dbRake, cache, req, testVars >>

NextScore ==
  \/ Tick
  \/ PrismaConnected
  \/ RedisConnected
  \/ \E r \in ScoreReq :
       \/ MapRoutes(r)
       \/ Kpis(r)
       \/ CacheHit(r)
       \/ CacheMiss(r)
       \/ CacheGetFailed(r)
       \/ RouteFound(r)
       \/ RouteFindFailed(r)
       \/ PendingCounted(r)
       \/ DispatchedCounted(r)
       \/ CountFailed(r)
       \/ CacheSetDone(r)
       \/ CacheSetFailed(r)

\* the scoring and KPI endpoints alone
SpecScore == Init /\ [][NextScore]_vars

\* query strings whose free-text parameters carry the key's own separators
KeyQueries ==
  { [cargo |-> c, loco |-> l, grade |-> g, tonnage |-> JUndef, routeKey |-> rk] :
      c \in { JUndef, JStr("coal"), JStr("coal:l:x"), JStr("COAL") },
      l \in { JUndef, JStr("y"), JStr("x:l:y"), JStr("electric") },
      g \in { JUndef, JStr("6"), JStr("abc") },
      rk \in { JUndef, JStr("BKSC-ROU"), JStr("default") } }

\* GET /map/routes up to its cache key, for two requests side by side
NextKey == \E r \in ScoreReq : MapRoutesWith(r, KeyQueries)

SpecKey == Init /\ [][NextKey]_vars

\* query strings over the known and unknown values of every parameter
InputQueries ==
  { [cargo |-> c, loco |-> l, grade |-> g, tonnage |-> t, routeKey |-> rk] :
      c \in { JUndef, JStr("coal") },
      l \in { JUndef, JStr("electric"), JStr("steam") },
      g \in { JUndef, JStr("-3"), JStr("6"), JStr("10"), JStr("abc") },
      t \in { JUndef, JStr("500"), JStr("1000"), JStr("6000"), JStr("9000"), JStr("abc") },
      rk \in { JUndef, JStr("BKSC-ROU"), JStr("bksc-rou"), JStr("BKSC-DGR"),
               JStr("BKSC-BPHB"), JStr("BKSC-BKSC"), JStr("BKSC-ROU-BKSC"),
               JStr("UNKNOWN-KEY") } }

\* one GET /map/routes from arrival to response, without a cache, over
\* the wide inputs
NextInputs ==
  \/ PrismaConnected
  \/ MapRoutesWith(1, InputQueries)
  \/ CacheMiss(1)
  \/ RouteFound(1)
  \/ RouteFindFailed(1)
  \/ CacheSetDone(1)

SpecInputs == Init /\ [][NextInputs]_vars

\* query strings whose route keys are spelled in several letter cases
CaseQueries ==
  { [cargo |-> JUndef, loco |-> JUndef, grade |-> JUndef, tonnage |-> JUndef,
     routeKey |-> rk] :
      rk \in { JUndef, JStr("BKSC-ROU"), JStr("bksc-rou"), JStr("Bksc-Rou"),
               JStr("BKSC-BPHB"), JStr("bksc-bphb") } }

\* two GET /map/routes side by side, without a cache
NextCase ==
  \/ PrismaConnected
  \/ \E r \in ScoreReq :
       \/ MapRoutesWith(r, CaseQueries)
       \/ CacheMiss(r)
       \/ RouteFound(r)
       \/ RouteFindFailed(r)
       \/ CacheSetDone(r)

SpecCase == Init /\ [][NextCase]_vars

\* a dispatch and two GET /map/routes that arrive while it runs
NextFrame ==
  \/ PrismaConnected
  \/ RedisConnected
  \/ YardDispatch(1)
  \/ DispatchCreated(1)
  \/ DispatchCreateFailed(1)
  \/ RakeUpdated(1)
  \/ RakeUpdateFailed(1)
  \/ \E r \in Req \ { 1 } :
       \/ MapRoutes(r)
       \/ CacheHit(r)
       \/ CacheMiss(r)
       \/ RouteFound(r)
       \/ RouteFindFailed(r)
       \/ CacheSetDone(r)

SpecFrame == Init /\ [][NextFrame]_vars

\* ------------------------------------------------ GET /export/kpis.pdf
\* the context the report reads from the query string: routeKey falls back
\* to 'BKSC-DGR'
ExportParseQuery(q) ==
  [cargo |-> ToLowerCase(StringOr(q.cargo, "ore")),
   loco |-> ToLowerCase(StringOr(q.loco, "diesel")),
   grade |-> NumberOr(q.grade, 0),
   tonnage |-> NumberOr(q.tonnage, 3000),
   routeKey |-> ToUpperCase(StringOr(q.routeKey, "BKSC-DGR"))]

\* the report's own baseByCargo, in 10^-3 t/km
ExportBaseKm(cargo) ==
  CASE cargo = "ore" -> 22
    [] cargo = "coal" -> 24
    [] cargo = "steel" -> 20
    [] cargo = "cement" -> 21
    [] OTHER -> 22

\* the report's own locoMul = curve[loco] * locoFactor[loco], as num / den
ExportLocoMul(loco, t) ==
  CASE loco = "diesel" -> [num |-> t + 17000, den |-> 20000]
    [] loco = "electric" -> [num |-> t + 27000, den |-> 62500]
    [] loco = "hybrid" -> [num |-> t + 24000, den |-> 37500]
    [] OTHER -> [num |-> 1, den |-> 1]

\* the report's own gradeMul, in hundredths
ExportGradeMul(grade) == 100 + 3 * Clamp(grade, 0, 6)

\* a report whose factor leaves the grade out
ExportEfPerKmNoGrade(cargo, loco, grade, tonnage) ==
  IF grade = JNaN THEN JNaN
  ELSE IF tonnage = JNaN /\ loco \in { "diesel", "electric", "hybrid" } THEN JNaN
  ELSE LET lm == ExportLocoMul(loco, Clamp(IF tonnage = JNaN THEN 3000 ELSE tonnage.num,
                                           1000, 6000))
       IN JNum(RoundDiv(ExportBaseKm(cargo) * 100 * lm.num, lm.den))

\* the report's own efPerKm in 10^-5 t/km, as a number or NaN
ExportEfPerKm(cargo, loco, grade, tonnage) ==
  IF grade = JNaN THEN JNaN
  ELSE IF tonnage = JNaN /\ loco \in { "diesel", "electric", "hybrid" } THEN JNaN
  ELSE LET lm == ExportLocoMul(loco, Clamp(IF tonnage = JNaN THEN 3000 ELSE tonnage.num,
                                           1000, 6000))
       IN JNum(RoundDiv(ExportBaseKm(cargo) * ExportGradeMul(grade.num) * lm.num, lm.den))

\* the report's own presets table
ExportPresets ==
  [k \in { "BKSC-DGR", "BKSC-ROU", "BKSC-BPHB" } |->
     CASE k = "BKSC-DGR" -> << "BKSC", "Dhanbad", "Asansol", "Andal", "DGR" >>
       [] k = "BKSC-ROU" -> << "BKSC", "Purulia", "ROU" >>
       [] k = "BKSC-BPHB" -> << "BKSC", "Norla", "BPHB" >>]

\* the station sequence the report lists: the store's when it gave one of 2
\* stations or more, else presets[routeKey] || presets['BKSC-DGR']
ExportStationsFor(routeKey, seq) ==
  IF Len(seq) >= 2 THEN seq
  ELSE IF routeKey \in DOMAIN ExportPresets THEN ExportPresets[routeKey]
  ELSE ExportPresets["BKSC-DGR"]

\* withEmissions of the report: km (hundredths) and co2 (thousandths of a ton)
ExportWithEmissions(segs, ef) ==
  [i \in 1..Len(segs) |->
     LET mm == haversine(segs[i].from, segs[i].to)
     IN [from |-> segs[i].from, to |-> segs[i].to, status |-> segs[i].status,
         label |-> segs[i].label,
         km |-> RoundDiv(mm, 10000),
         co2 |-> IF ef = JNaN THEN JNaN
                 ELSE JNum(Co2Tons(mm, ef.num, statusFactor(segs[i].status)))]]

\* bestIdx of the report: the reduce that keeps the first least co2 (0-based)
RECURSIVE ExportBestFrom(_, _, _)
ExportBestFrom(routes, i, m) ==
  IF i > Len(routes) THEN m - 1
  ELSE ExportBestFrom(routes, i + 1, IF Less(routes[i].co2, routes[m].co2) THEN i ELSE m)

\* the KPI figures the report starts from, in the units of KpisPayload
ExportKpisDefault ==
  [pendingRakes |-> 6, dispatchedRakes |-> 12, utilization |-> [num |-> 39, den |-> 50],
   carbonIntensityPerRake |-> 98, co2Total |-> 1176, ecoSavingsPercent |-> 12]

\* the route table is drawn (pick() per segment), the factors line is
\* written and the document is ended
\* (queried and seq are history: whether the store was asked and the
\* stations it gave)
ExportRender(r, l, seq) ==
  LET q == l.q
      stations == ExportStationsFor(q.routeKey, seq)
  IN \E picks \in [1..(Len(stations) - 1) -> StatusSet] :
       LET ef == ExportEfPerKm(q.cargo, q.loco, q.grade, q.tonnage)
           routes == ExportWithEmissions(SegmentsOf(stations, picks), ef)
       IN /\ resp' = [resp EXCEPT ![r] =
                       [status |-> 200, kpis |-> l.kpis, routes |-> routes,
                        bestIdx |-> ExportBestFrom(routes, 1, 1),
                        factors |-> [cargo |-> q.cargo, loco |-> q.loco, grade |-> q.grade,
                                     tonnage |-> q.tonnage, efPerKm |-> ef]]]
          /\ loc' = [loc EXCEPT ![r] = [q |-> q, queried |-> l.queried, seq |-> seq]]
          /\ pc' = [pc EXCEPT ![r] = "done"]

\* GET /export/kpis.pdf arrives with one of the given query strings: with a
\* store the counts are awaited, without one the report is written at once
ExportPdfWith(r, queries) ==
  /\ Arrives(r)
  /\ \E query \in queries :
       LET l == [q |-> ExportParseQuery(query), kpis |-> ExportKpisDefault, queried |-> prisma]
       IN /\ req' = [req EXCEPT ![r] = [kind |-> "exportPdf", query |-> query]]
          /\ IF prisma
             THEN /\ loc' = [loc EXCEPT ![r] = l]
                  /\ pc' = [pc EXCEPT ![r] = "pdfCountPending"]
                  /\ resp' = resp
             ELSE ExportRender(r, l, NoSeq)
  /\ UNCHANGED << now, prisma, redis, ledger, dbDispatch, dbRake, cache, testVars >>

\* the count of PENDING rakes resolved: pending is assigned
PdfPendingCounted(r) ==
  /\ pc[r] = "pdfCountPending"
  /\ loc' = [loc EXCEPT ![r].kpis.pendingRakes = RakeCount("PENDING")]
  /\ pc' = [pc EXCEPT ![r] = "pdfCountDispatched"]
  /\ UNCHANGED << now, prisma, redis, ledger, dbDispatch, dbRake, cache, req, resp, testVars >>

\* the count of DISPATCHED rakes resolved: the figures are derived and
\* prisma.route.findUnique is issued
PdfDispatchedCounted(r) ==
  /\ pc[r] = "pdfCountDispatched"
  /\ loc' = [loc EXCEPT ![r].kpis =
              KpisPayload(loc[r].kpis.pendingRakes, RakeCount("DISPATCHED"))]
  /\ pc' = [pc EXCEPT ![r] = "pdfFind"]
  /\ UNCHANGED << now, prisma, redis, ledger, dbDispatch, dbRake, cache, req, resp, testVars >>

\* a count threw: the empty catch keeps what was assigned so far
PdfCountFailed(r) ==
  /\ pc[r] \in { "pdfCountPending", "pdfCountDispatched" }
  /\ pc' = [pc EXCEPT ![r] = "pdfFind"]
  /\ UNCHANGED << now, prisma, redis, ledger, dbDispatch, dbRake, cache, req, loc, resp, testVars >>

\* prisma.route.findUnique resolved: the route's stations, or null
PdfRouteFound(r) ==
  /\ pc[r] = "pdfFind"
  /\ ExportRender(r, loc[r], IF loc[r].q.routeKey \in DOMAIN DbRoutes
                             THEN DbRoutes[loc[r].q.routeKey] ELSE NoSeq)
  /\ UNCHANGED << now, prisma, redis, ledger, dbDispatch, dbRake, cache, req, testVars >>

\* prisma.route.findUnique threw: the empty catch leaves routes empty
PdfRouteFindFailed(r) ==
  /\ pc[r] = "pdfFind"
  /\ ExportRender(r, loc[r], NoSeq)
  /\ UNCHANGED << now, prisma, redis, ledger, dbDispatch, dbRake, cache, req, testVars >>

\* one GET /export/kpis.pdf from arrival to the finished document, over the
\* wide inputs
NextExport ==
  \/ PrismaConnected
  \/ ExportPdfWith(1, InputQueries)
  \/ PdfPendingCounted(1)
  \/ PdfDispatchedCounted(1)
  \/ PdfCountFailed(1)
  \/ PdfRouteFound(1)
  \/ PdfRouteFindFailed(1)

SpecExport == Init /\ [][NextExport]_vars

\* one GET /map/routes with the cache and the store as they may be: every
\* step after the arrival is the settling of an awaited call
NextAwait ==
  \/ Tick
  \/ PrismaConnected
  \/ RedisConnected
  \/ MapRoutes(1)
  \/ CacheMiss(1)
  \/ CacheGetFailed(1)
  \/ RouteFound(1)
  \/ RouteFindFailed(1)
  \/ CacheSetDone(1)
  \/ CacheSetFailed(1)

\* the steps the server takes on its own: cacheGet and cacheSet return at
\* once when there is no client, and the handler resumes in the same turn of
\* the event loop
OwnStep(r) ==
  \/ pc[r] = "cacheGet" /\ ~loc[r].getIssued /\ CacheMiss(r)
  \/ pc[r] = "cacheSet" /\ ~loc[r].setIssued /\ CacheSetDone(r)

\* the event loop always runs a continuation that is ready; nothing makes
\* redis or the store answer
SpecAwait == Init /\ [][NextAwait]_vars /\ WF_vars(OwnStep(1))

\* the whole server
Next == NextLedger \/ NextScore

Spec == Init /\ [][Next]_vars

\* ================================================================ claims
\* the requests that have appended a block, and the block of position i
Appended == { r \in Req : "pos" \in DOMAIN loc[r] }
PrevHashAt(i) == Get(ledger[i], "prevHash")
HashAt(i) == Get(ledger[i], "hash")
TypeAt(i) == Get(ledger[i], "type").str

\* C1: after any sequence of appends (LOADING_CONFIRMED and DISPATCH in any
\* order) the first block's prevHash is the genesis sentinel and every later
\* block's prevHash is the hash of the block before it.
C1_ChainLinked ==
  /\ Len(ledger) > 0 => PrevHashAt(1) = JStr(GENESIS)
  /\ \A i \in 2..Len(ledger) : PrevHashAt(i) = HashAt(i - 1)

C1_Witness ==
  /\ Len(ledger) >= 3
  /\ TypeAt(1) = "DISPATCH" /\ TypeAt(2) = "LOADING_CONFIRMED" /\ TypeAt(3) = "DISPATCH"
  /\ PrevHashAt(3) = HashAt(2)

\* C2: N callers of the dispatch and confirm-loading handlers, interleaved at
\* their awaits on the store, leave exactly N blocks, each caller's block at
\* its own position, positions increasing in arrival order, and no two
\* blocks with the same prevHash.
C2_NoFork ==
  /\ Len(ledger) = Cardinality(Appended)
  /\ \A r \in Appended : loc[r].pos \in 1..Len(ledger) /\ ledger[loc[r].pos] = loc[r].block
  /\ \A r1, r2 \in Appended : r1 < r2 => loc[r1].pos < loc[r2].pos
  /\ \A i, j \in 1..Len(ledger) : i # j => PrevHashAt(i) # PrevHashAt(j)

C2_Witness ==
  /\ Len(ledger) >= 3
  /\ \E r1, r2 \in Req : r1 # r2 /\ pc[r1] = "create" /\ pc[r2] = "update"

\* C3: the ledger is append-only: every step of every handler leaves the
\* blocks already in the ledger as they are and in place, only adding at the
\* end; GET /ledger answers with length = the number of appends made so far
\* and the blocks in append order.
C3_ListIsLedger ==
  \A r \in Req :
    (req[r].kind = "ledgerList" /\ pc[r] = "done") =>
      /\ resp[r].body.length = Len(resp[r].body.chain)
      /\ resp[r].body.length <= Len(ledger)
      /\ resp[r].body.chain = SubSeq(ledger, 1, resp[r].body.length)
      /\ resp[r].body.length = Cardinality({ q \in Appended : q < r })

C3_AppendOnly ==
  /\ []C3_ListIsLedger
  /\ [][/\ Len(ledger') >= Len(ledger)
        /\ SubSeq(ledger', 1, Len(ledger)) = ledger
        /\ Len(ledger') <= Len(ledger) + 1]_vars

C3_Witness ==
  /\ \E r \in Req : /\ req[r].kind = "ledgerList"
                    /\ pc[r] = "done"
                    /\ resp[r].body.length = 1
  /\ Len(ledger) = 2
  /\ Len(dbDispatch) = 1
  /\ \E c \in DOMAIN dbRake : dbRake[c] = "DISPATCHED"

\* C4: the hash stored in every block of the ledger is the digest of the
\* serialization of the rest of that block, which holds the entry's fields,
\* prevHash and ts: it can be recomputed from the stored block alone.
C4_HashRecomputable ==
  \A i \in 1..Len(ledger) :
    LET b == ledger[i]
        payload == Without(b, "hash")
    IN /\ HashAt(i) = JStr(Sha256Hex(Stringify(payload)))
       /\ HasKey(payload, "type") /\ HasKey(payload, "rakeId") /\ HasKey(payload, "actor")
       /\ HasKey(payload, "prevHash") /\ HasKey(payload, "ts")
       /\ b[Len(b)].k = "hash"

C4_Witness ==
  /\ Len(ledger) >= 2
  /\ Get(ledger[1], "ts") # Get(ledger[2], "ts")
  /\ TypeAt(2) = "DISPATCH"
  /\ Get(ledger[2], "to") = JUndef
  /\ Get(ledger[2], "tonnage") = JNum(3000)

\* --------------------------------------------------------------- verify
\* what verify() is to report for chain l
AllOk(l) == \A i \in 1..Len(l) : HashOk(l, i) /\ LinkOk(l, i)
FirstBad(l) ==
  CHOOSE i \in 1..Len(l) :
    /\ ~(HashOk(l, i) /\ LinkOk(l, i))
    /\ \A j \in 1..(i - 1) : HashOk(l, j) /\ LinkOk(l, j)
Current(v) == v # NoVerdict /\ v.len = Len(ledger) /\ v.tampered = tamperedAt

\* C5: verify() reports valid exactly when every block's stored hash equals
\* the recomputed digest and its prevHash equals the hash of the block
\* before it; otherwise valid = false and firstInvalidIndex is the smallest
\* index failing a check; a chain built by appendLedger alone is valid, and
\* with the payload of block k altered firstInvalidIndex = k.
C5_VerifyReport ==
  /\ verify(ledger).valid <=> AllOk(ledger)
  /\ ~AllOk(ledger) => verify(ledger).firstInvalidIndex = FirstBad(ledger) - 1
  /\ tamperedAt = 0 => verify(ledger) = [valid |-> TRUE]
  /\ tamperedAt # 0 =>
       verify(ledger) = [valid |-> FALSE, firstInvalidIndex |-> tamperedAt - 1]
  /\ Current(verdict) => verdict.result = verify(ledger)

C5_Witness ==
  /\ tamperedAt = 1
  /\ Len(ledger) >= 2
  /\ Current(verdict)
  /\ verdict.result = [valid |-> FALSE, firstInvalidIndex |-> 0]

\* C6: with the payload of one block k of a valid chain altered and the
\* stored hashes left alone, verification fails at block k and no block
\* after k is verified either: the walk of verify() over the chain up to any
\* block from k on ends invalid, at k, while the chain before k still
\* verifies.
Upto(n) == SubSeq(ledger, 1, n)
RejectedNoRakeId(r) ==
  /\ req[r].kind = "ledgerDispatch"
  /\ req[r].rakeId = JUndef
C7_Rejected ==
  /\ \A r \in Req :
       RejectedNoRakeId(r) =>
         /\ pc[r] = "done"
         /\ resp[r] = [status |-> 400, error |-> "rakeId required"]
         /\ r \notin Appended
  /\ \A i \in 1..Len(ledger) : ~Falsy(Get(ledger[i], "rakeId"))

C7_AbsentRakeIdRejected ==
  /\ []C7_Rejected
  /\ [][\A r \in Req :
          (pc[r] = "idle" /\ pc'[r] # "idle" /\ req'[r].kind = "ledgerDispatch"
             /\ req'[r].rakeId = JUndef)
          => (ledger' = ledger /\ dbDispatch' = dbDispatch /\ dbRake' = dbRake)]_vars

C7_Witness ==
  /\ Len(ledger) >= 1
  /\ prisma
  /\ \E r \in Req : RejectedNoRakeId(r) /\ resp[r].status = 400

\* C8: a dispatch or confirm-loading with a rakeId never fails: with the
\* store absent, answering, or throwing on the dispatch row's write, the
\* handler appends exactly one block, on arrival, and answers 200 with that
\* block.
WithRakeId(r) ==
  /\ req[r].kind \in { "ledgerDispatch", "yardDispatch", "confirmLoading" }
  /\ ~Falsy(req[r].rakeId)
C8_Answered ==
  \A r \in Req :
    WithRakeId(r) =>
      /\ r \in Appended
      /\ ledger[loc[r].pos] = loc[r].block
      /\ Get(loc[r].block, "rakeId") = req[r].rakeId
      /\ pc[r] \in { "create", "update", "done" }
      /\ pc[r] = "done" => resp[r] = [status |-> 200, body |-> loc[r].block]

C8_AppendNeverFails ==
  /\ []C8_Answered
  /\ [][\A r \in Req :
          /\ (pc[r] = "idle" /\ pc'[r] # "idle" /\ WithRakeId(r)')
               => Len(ledger') = Len(ledger) + 1
          /\ (pc[r] \in { "create", "update" } /\ pc'[r] # pc[r])
               => ledger' = ledger]_vars

\* a dispatch answered with its block after the row's write threw
C8_Witness ==
  \E r \in Req :
    /\ WithRakeId(r)
    /\ pc[r] = "done"
    /\ "prevHash" \in DOMAIN loc[r]
    /\ resp[r].status = 200
    /\ \A i \in 1..Len(dbDispatch) : dbDispatch[i].hash # Get(loc[r].block, "hash").str
    /\ Len(ledger) >= 2

\* ---------------------------------------------------------------- C9
\* a call of GET /map/routes that has been answered
Scored(r) == pc[r] = "done" /\ req[r].kind = "mapRoutes"

\* r2 was made with the inputs of r1, after r1 was answered
Again(r1, r2) ==
  /\ Scored(r1) /\ Scored(r2)
  /\ req[r1] = req[r2]
  /\ r1 \in loc[r2].prior

LookupSucceeds(r) ==
  /\ pc[r] = "cacheGet" /\ pc'[r] # "cacheGet"
  /\ loc[r].getIssued
  /\ Live(loc[r].key, now)
  /\ ~loc'[r].getFailed

\* the call is answered at once with the cached value, the cache untouched
AnsweredFromCache(r) ==
  /\ pc'[r] = "done"
  /\ resp'[r] = [status |-> 200, body |-> cache[loc[r].key].val]
  /\ cache' = cache
  /\ loc'[r].hit
  /\ UNCHANGED << dbRake, dbDispatch, ledger >>

\* a call answered from the cache never queried the store, computed or
\* wrote the cache
C10_NoComputeOnHit ==
  \A r \in ScoreReq :
    (pc[r] # "idle" /\ loc[r].hit)
      => pc[r] = "done" /\ ~loc[r].queried /\ ~loc[r].computed /\ ~loc[r].wrote

\* C10: when the cache holds a non-expired entry for the request's key (and
\* the lookup returns it), the cached value is the response, the route store
\* is not queried, the scoring is not run and the entry is not rewritten
C10_CachedValueReturned ==
  /\ [][\A r \in ScoreReq : LookupSucceeds(r) => AnsweredFromCache(r)]_vars
  /\ []C10_NoComputeOnHit

C10_Witness ==
  \E r \in ScoreReq :
    /\ pc[r] = "done" /\ loc[r].hit
    /\ Live(loc[r].key, now)
    /\ resp[r].body = cache[loc[r].key].val
    /\ cache[loc[r].key].by # r
    /\ prisma

\* ---------------------------------------------------------------- C11
\* the lookup of call r ends in this step without a value: no client, no
\* live entry under the key, or a read error
LookupGivesNothing(r) ==
  /\ pc[r] = "cacheGet" /\ pc'[r] # "cacheGet"
  /\ \/ ~loc[r].getIssued
     \/ ~Live(loc[r].key, now)
     \/ loc'[r].getFailed

\* the handler goes on to the compute path and sends nothing yet
GoesOnToCompute(r) ==
  /\ pc'[r] \in { "find", "countPending", "cacheSet" }
  /\ resp'[r] = NoResp
  /\ ~loc'[r].hit
  /\ loc'[r].queried \/ loc'[r].computed

\* cacheSet has ended for call r in this step, stored or not
CacheSetEnds(r) == pc[r] = "cacheSet" /\ pc'[r] # "cacheSet"

\* the freshly computed payload is the response
FreshReturned(r) ==
  /\ pc'[r] = "done"
  /\ loc[r].computed
  /\ resp'[r] = [status |-> 200, body |-> JsonPayload(loc[r].payload)]

\* a call not answered from the cache computed its result and was answered
\* with status 200, whatever became of the cache write
C11_NoErrorReaches ==
  \A r \in ScoreReq :
    (pc[r] = "done" /\ ~loc[r].hit) => loc[r].computed /\ resp[r].status = 200

\* C11: on a cache miss, an absent cache backend or a read error the result
\* is computed and returned; if the cache write fails too the fresh value is
\* still returned and no error reaches the caller
C11_ComputedOnMiss ==
  /\ [][\A r \in ScoreReq : LookupGivesNothing(r) => GoesOnToCompute(r)]_vars
  /\ [][\A r \in ScoreReq : CacheSetEnds(r) => FreshReturned(r)]_vars
  /\ []C11_NoErrorReaches

C11_Witness ==
  \E r \in ScoreReq :
    /\ pc[r] = "done" /\ req[r].kind = "mapRoutes"
    /\ loc[r].getIssued /\ loc[r].getFailed
    /\ loc[r].computed
    /\ loc[r].setIssued /\ ~loc[r].wrote
    /\ resp[r].status = 200
    /\ Len(resp[r].body.routes) = 2

\* ---------------------------------------------------------------- C12
\* a call of GET /map/routes that has its cache key
Keyed(r) == pc[r] = "cacheGet" /\ req[r].kind = "mapRoutes"

\* C12 as stated: the cache key is an injective function of the scoring
\* inputs (cargo, locomotive, grade, tonnage, routeKey as the handler reads
\* them): equal inputs give equal keys and inputs that differ anywhere give
\* different keys
C12_KeyInjective ==
  \A r1, r2 \in ScoreReq :
    (Keyed(r1) /\ Keyed(r2)) => (loc[r1].q = loc[r2].q <=> loc[r1].key = loc[r2].key)

\* two calls with different cargo and locomotive, and so different emission
\* factors, under one key
C12_Witness ==
  \E r1, r2 \in ScoreReq :
    /\ Keyed(r1) /\ Keyed(r2)
    /\ loc[r1].key = loc[r2].key
    /\ loc[r1].q.cargo = "coal" /\ loc[r2].q.cargo = "coal:l:x"
    /\ efPerKm(loc[r1].q.cargo, loc[r1].q.loco, 0, 3000)
         # efPerKm(loc[r2].q.cargo, loc[r2].q.loco, 0, 3000)

\* ---------------------------------------------------------------- C13
\* call r of GET /map/routes missed the cache, has computed its payload and
\* has issued its write to the cache
Computes(r) ==
  /\ pc[r] \in { "cacheSet", "done" } /\ req[r].kind = "mapRoutes"
  /\ loc[r].computed /\ loc[r].setIssued

\* the value call r computed: what it writes to the cache and sends
ValueOf(r) == IF pc[r] = "cacheSet" THEN JsonPayload(loc[r].payload) ELSE resp[r].body

\* r2 arrived with the inputs of r1 while r1 was not answered yet
Racing(r1, r2) ==
  /\ r1 < r2
  /\ Computes(r1) /\ Computes(r2)
  /\ req[r1] = req[r2]
  /\ r1 \notin loc[r2].prior

\* C13 as stated: scoring requests for one key that run concurrently and all
\* miss the cache compute an identical value, so the cached value is the
\* same whichever writer wins
C13_RacingWritersAgree ==
  \A r1, r2 \in ScoreReq : Racing(r1, r2) => ValueOf(r1) = ValueOf(r2)

\* two racing writers stored different values; the cache holds the later one
C13_Witness ==
  \E r1, r2 \in ScoreReq :
    /\ Racing(r1, r2)
    /\ pc[r1] = "done" /\ pc[r2] = "done"
    /\ loc[r1].wrote /\ loc[r2].wrote
    /\ resp[r1] # resp[r2]
    /\ loc[r1].key \in DOMAIN cache
    /\ cache[loc[r1].key].val # resp[r1].body

\* ---------------------------------------------------------------- C14
\* call r of GET /kpis asked the store for its counts, a count threw, and
\* the call was answered: its payload is the fallback, which no store state
\* gives
KpisFailed(r) ==
  /\ pc[r] = "done" /\ req[r].kind = "kpis"
  /\ loc[r].queried /\ loc[r].computed
  /\ resp[r].body = JsonPayload(KpisFallback)

\* C14 as stated: when the computation of a result fails no cache entry is
\* written for the key and the failure reaches the caller
C14_NoNegativeCaching ==
  \A r \in ScoreReq :
    KpisFailed(r) => ~loc[r].wrote /\ resp[r].status # 200

\* the KPI aggregation failed, the caller got 200 and the cache holds the
\* fallback payload under the KPI key
C14_Witness ==
  \E r \in ScoreReq :
    /\ KpisFailed(r)
    /\ prisma
    /\ resp[r].status = 200
    /\ loc[r].wrote
    /\ KpisCacheKey \in DOMAIN cache
    /\ cache[KpisCacheKey].val = JsonPayload(KpisFallback)
    /\ cache[KpisCacheKey].exp = now + KpisTtl
    /\ KpisFallback # KpisPayload(RakeCount("PENDING"), RakeCount("DISPATCHED"))

\* ---------------------------------------------------------------- C15
\* call r of GET /map/routes has resolved and scored its route
Resolved(r) == pc[r] = "cacheSet" /\ req[r].kind = "mapRoutes"

\* the store answered call r's lookup with a route of 2 waypoints or more
StoreGave(r) == "route" \in DOMAIN loc[r] /\ Len(loc[r].route) >= 2

\* the segments join the waypoints of seq in order, one per pair of
\* neighbours, and nothing else
Follows(routes, seq) ==
  /\ Len(routes) = Len(seq) - 1
  /\ \A i \in 1..Len(routes) :
       /\ routes[i].from = seq[i] /\ routes[i].to = seq[i + 1]
       /\ routes[i].label = seq[i] \o "→" \o seq[i + 1]

\* the generic default: exactly the two segments near the fixed origin
IsDefault(routes) ==
  /\ Len(routes) = 2
  /\ routes[1].label = "YardA→YardB" /\ routes[2].label = "YardA→Alt"

\* the eco block of a payload is valid
EcoValid(p) ==
  /\ p.eco.bestIndex \in 0..(Len(p.routes) - 1)
  /\ p.eco.savingsPercent # JNaN
  /\ p.eco.savingsPercent.num \in 0..100

\* the context of call r is numeric: grade and tonnage parsed to numbers
Numeric(q) == q.grade # JNaN /\ q.tonnage # JNaN

LookupThrows(r) ==
  /\ pc[r] = "find" /\ pc'[r] # "find"
  /\ "route" \notin DOMAIN loc'[r]

\* the handler goes on as for a route the store does not have: the preset
\* of the key, else the default, and nothing is sent yet
AsNotFound(r) ==
  /\ pc'[r] = "cacheSet"
  /\ resp'[r] = NoResp
  /\ LET routes == loc'[r].payload.routes
         rk == loc[r].q.routeKey
     IN IF rk \in DOMAIN presets THEN Follows(routes, presets[rk]) ELSE IsDefault(routes)

\* every answered scoring request got status 200 and a non-empty segment list
C16_AlwaysSomeRoute ==
  \A r \in ScoreReq :
    (pc[r] = "done" /\ req[r].kind = "mapRoutes")
      => resp[r].status = 200 /\ Len(resp[r].body.routes) >= 1

\* C16: a store-lookup error during route resolution is handled exactly
\* like 'not found', never reaches the caller, and every scoring request
\* ends with a non-empty segment list
C16_StoreErrorSwallowed ==
  /\ [][\A r \in ScoreReq : LookupThrows(r) => AsNotFound(r)]_vars
  /\ []C16_AlwaysSomeRoute

\* the lookup of a key the store holds threw, and the preset was scored
C16_Witness ==
  \E r \in ScoreReq :
    /\ Resolved(r)
    /\ prisma /\ loc[r].queried /\ "route" \notin DOMAIN loc[r]
    /\ loc[r].q.routeKey = "BKSC-ROU"
    /\ Len(DbRoutes["BKSC-ROU"]) >= 2
    /\ Follows(loc[r].payload.routes, presets["BKSC-ROU"])

\* ---------------------------------------------------------------- C17
\* C17 as stated: every scoring request is answered in the end, even when
\* the route store or the cache backend never answers a call
C17_EventuallyAnswered ==
  \A r \in { 1 } : (pc[r] = "cacheGet") ~> (pc[r] = "done")

\* the request still waits for the store's answer when the clock has run
\* past every TTL: no step of the handler ends the wait
C17_Witness ==
  /\ pc[1] = "find"
  /\ now = MaxClock
  /\ resp[1] = NoResp
  /\ ~ENABLED OwnStep(1)

\* ---------------------------------------------------------------- C18
\* all segments of the payload have equal emissions
AllEqual(routes) == \A i, j \in 1..Len(routes) : routes[i].co2_tons = routes[j].co2_tons

\* C18 as stated: for every scoring result savingsPercent is an integer
\* from 0 to 100, and 0 whenever all segments have equal emissions, a
\* single-segment route and an all-zero route included
C18_SavingsInRange ==
  \A r \in ScoreReq :
    Resolved(r) =>
      LET p == loc[r].payload
      IN /\ p.eco.savingsPercent # JNaN
         /\ p.eco.savingsPercent.num \in 0..100
         /\ AllEqual(p.routes) => p.eco.savingsPercent = JNum(0)

\* a numeric context and a single segment of zero emission (the store's
\* route joins two waypoints at the same place): savingsPercent is NaN, sent
\* as null
C18_Witness ==
  \E r \in ScoreReq :
    /\ Resolved(r) /\ Numeric(loc[r].q) /\ StoreGave(r)
    /\ Len(loc[r].payload.routes) = 1
    /\ loc[r].payload.routes[1].co2_tons = JNum(0)
    /\ loc[r].payload.eco.savingsPercent = JNaN
    /\ JsonPayload(loc[r].payload).eco.savingsPercent = JNull

\* ---------------------------------------------------------------- C19
\* C19: bestIndex is a valid index into the segment list, the segment there
\* has co2_tons less than or equal to every other segment's, and among the
\* segments tied for the minimum it is the first
C19_BestIsFirstMinimum ==
  \A r \in ScoreReq :
    Resolved(r) =>
      LET routes == loc[r].payload.routes
          b == loc[r].payload.eco.bestIndex + 1
      IN /\ b \in 1..Len(routes)
         /\ \A j \in 1..Len(routes) :
              \/ routes[b].co2_tons = routes[j].co2_tons
              \/ Less(routes[b].co2_tons, routes[j].co2_tons)
         /\ \A j \in 1..(b - 1) : routes[j].co2_tons # routes[b].co2_tons

\* two segments tied for the least, and the first of them chosen
C19_Witness ==
  \E r \in ScoreReq :
    /\ Resolved(r) /\ Numeric(loc[r].q)
    /\ Len(loc[r].payload.routes) = 2
    /\ loc[r].payload.routes[1].co2_tons = loc[r].payload.routes[2].co2_tons
    /\ Less(JNum(0), loc[r].payload.routes[1].co2_tons)
    /\ loc[r].payload.eco.bestIndex = 0

\* four segments, the last of them the least
C19_LastIsLeast ==
  \E r \in ScoreReq :
    /\ Resolved(r) /\ Numeric(loc[r].q)
    /\ Len(loc[r].payload.routes) = 4
    /\ loc[r].payload.eco.bestIndex = 3
    /\ Less(loc[r].payload.routes[4].co2_tons, loc[r].payload.routes[1].co2_tons)
    /\ loc[r].payload.routes[1].status = "clear"
    /\ loc[r].payload.routes[4].status = "congested"

\* ---------------------------------------------------------------- C20
\* the value of the range lo..hi nearest to x
Nearest(x, lo, hi) == IF x < lo THEN lo ELSE IF x > hi THEN hi ELSE x

\* C20: grade and tonnage are clamped before use: a grade above 6 gives the
\* emission factor of 6 and one below 0 that of 0, a tonnage above 6000 that
\* of 6000 and one below 1000 that of 1000, and an out-of-range value is
\* scored, not rejected
C20_Clamped ==
  \A r \in ScoreReq :
    (pc[r] \in { "find", "cacheSet", "done" } /\ req[r].kind = "mapRoutes"
       /\ Numeric(ParseQuery(req[r].query)))
      => LET q == ParseQuery(req[r].query)
             inRange == efPerKm(q.cargo, q.loco, Nearest(q.grade.num, 0, 6),
                                Nearest(q.tonnage.num, 1000, 6000))
         IN /\ pc[r] = "cacheSet" => loc[r].payload.meta.efPerKm = JNum(inRange)
            /\ pc[r] = "done" =>
                 resp[r].status = 200 /\ resp[r].body.meta.efPerKm = JNum(inRange)

\* grade 10 and tonnage 9000 were answered with the factor of grade 6 and
\* tonnage 6000, which is not the factor of grade 0 or tonnage 1000
C20_Witness ==
  \E r \in ScoreReq :
    /\ pc[r] = "done" /\ req[r].kind = "mapRoutes"
    /\ req[r].query.grade = JStr("10") /\ req[r].query.tonnage = JStr("9000")
    /\ req[r].query.loco = JStr("electric")
    /\ resp[r].status = 200
    /\ resp[r].body.meta.grade = JNum(10)
    /\ resp[r].body.meta.efPerKm = JNum(efPerKm("ore", "electric", 6, 6000))
    /\ efPerKm("ore", "electric", 6, 6000) # efPerKm("ore", "electric", 0, 6000)
    /\ efPerKm("ore", "electric", 6, 6000) # efPerKm("ore", "electric", 6, 1000)


\* ------------------------------------------------------------------ C21
\* texts that differ only in letter case, by the spellings requests carry
CaseVariants ==
  { { "BKSC-ROU", "bksc-rou", "Bksc-Rou" }, { "BKSC-BPHB", "bksc-bphb" } }
OnlyCaseDiffers(a, b) == a # b /\ \E g \in CaseVariants : a \in g /\ b \in g

\* two scoring requests in flight, both scored, whose raw route keys differ
\* only in letter case
CasePair(r1, r2) ==
  /\ r1 # r2
  /\ pc[r1] = "cacheSet" /\ pc[r2] = "cacheSet"
  /\ req[r1].kind = "mapRoutes" /\ req[r2].kind = "mapRoutes"
  /\ IsStr(req[r1].query.routeKey) /\ IsStr(req[r2].query.routeKey)
  /\ OnlyCaseDiffers(req[r1].query.routeKey.str, req[r2].query.routeKey.str)

\* how the store lookup of a scored request ended: not made, answered, threw
StoreOutcome(r) ==
  IF ~loc[r].queried THEN "none" ELSE IF "route" \in DOMAIN loc[r] THEN "answered" ELSE "threw"

\* the waypoints of a payload: the labels of its segments in order
Waypoints(p) == [i \in 1..Len(p.routes) |-> p.routes[i].label]

\* C21: two scoring requests whose route keys differ only in letter case use
\* the same cache key and, the store lookup having ended the same way for
\* both, resolve to the same ordered waypoints.
C21_CaseInsensitive ==
  \A r1 \in ScoreReq : \A r2 \in ScoreReq :
    CasePair(r1, r2) =>
      /\ loc[r1].key = loc[r2].key
      /\ loc[r1].q.routeKey = loc[r2].q.routeKey
      /\ StoreOutcome(r1) = StoreOutcome(r2) =>
            Waypoints(loc[r1].payload) = Waypoints(loc[r2].payload)

\* a lower-case and an upper-case spelling both resolved: once from the
\* store, once from the presets
C21_Witness ==
  \E r1 \in ScoreReq : \E r2 \in ScoreReq :
    /\ CasePair(r1, r2)
    /\ StoreOutcome(r1) = StoreOutcome(r2)
    /\ req[r1].query.routeKey = JStr("bksc-rou")
    /\ Waypoints(loc[r1].payload) \in { << "BKSC→ROU" >>, << "BKSC→Purulia", "Purulia→ROU" >> }

\* ------------------------------------------------------------------ C22
\* a step of the handler of scoring request r
ScoringStep(r) == req'[r].kind = "mapRoutes" /\ pc'[r] # pc[r]

\* the cache keys whose entry a step added or replaced
Written == { k \in DOMAIN cache' : k \notin DOMAIN cache \/ cache'[k] # cache[k] }

\* C22: a step of a scoring request leaves the ledger and the store's
\* dispatch and rake tables as they are, drops no cache entry and writes no
\* cache entry other than the one of its own key, whatever else is in flight.
C22_OnlyOwnCacheEntry ==
  [][\A r \in Req :
       ScoringStep(r) =>
         /\ ledger' = ledger /\ dbDispatch' = dbDispatch /\ dbRake' = dbRake
         /\ DOMAIN cache \subseteq DOMAIN cache'
         /\ LET q == ParseQuery(req'[r].query)
            IN Written \subseteq
                 { RoutesCacheKey(q.cargo, q.loco, q.grade, q.tonnage, q.routeKey) }]_vars

\* two overlapping scoring requests stored their entries under two keys while
\* a dispatch had a block in the ledger and a row in the store
C22_Witness ==
  \E r1 \in Req : \E r2 \in Req :
    /\ r1 < r2
    /\ pc[r1] = "done" /\ pc[r2] = "done"
    /\ req[r1].kind = "mapRoutes" /\ req[r2].kind = "mapRoutes"
    /\ loc[r1].wrote /\ loc[r2].wrote
    /\ loc[r1].key # loc[r2].key
    /\ r1 \notin loc[r2].prior
    /\ { loc[r1].key, loc[r2].key } \subseteq DOMAIN cache
    /\ Len(ledger) = 1 /\ Len(dbDispatch) = 1
    /\ dbRake["RK001"] = "DISPATCHED"

\* ------------------------------------------------------------------ C23
\* the context of the worked example: BKSC-DGR, ore, electric, grade 0,
\* tonnage 3000
DgrExample(q) ==
  /\ q.routeKey = "BKSC-DGR" /\ q.cargo = "ore" /\ q.loco = "electric"
  /\ q.grade = JNum(0) /\ q.tonnage = JNum(3000)

\* the four hops of the example, in order
DgrHops == << "BKSC→Dhanbad", "Dhanbad→Asansol", "Asansol→Andal", "Andal→DGR" >>

\* C23: scoring BKSC-DGR with ore, electric, grade 0 and tonnage 3000, the
\* store not supplying the route, yields efPerKm = 0.01056 (1056 * 10^-5) and
\* exactly the segments BKSC→Dhanbad, Dhanbad→Asansol, Asansol→Andal,
\* Andal→DGR in that order, in the payload scored and in the response sent.
C23_DgrExample ==
  \A r \in ScoreReq :
    (req[r].kind = "mapRoutes" /\ DgrExample(ParseQuery(req[r].query))) =>
      /\ (pc[r] = "cacheSet" /\ ~StoreGave(r)) =>
            /\ loc[r].payload.meta.efPerKm = JNum(1056)
            /\ Waypoints(loc[r].payload) = DgrHops
      /\ pc[r] = "done" =>
            /\ resp[r].status = 200
            /\ resp[r].body.meta.efPerKm = JNum(1056)
            /\ Waypoints(resp[r].body) = DgrHops

\* the example was scored after the store had been asked and had no such
\* route
C23_Witness ==
  \E r \in ScoreReq :
    /\ pc[r] = "cacheSet" /\ req[r].kind = "mapRoutes"
    /\ DgrExample(loc[r].q)
    /\ loc[r].queried /\ "route" \in DOMAIN loc[r] /\ ~StoreGave(r)
    /\ loc[r].payload.meta.efPerKm = JNum(1056)
    /\ Len(loc[r].payload.routes) = 4

\* ------------------------------------------------------------------ C24
\* the request carries a grade or a tonnage that is not the text of a number
Malformed(query) ==
  \/ IsStr(query.grade) /\ NumberOfText(query.grade.str) = JNaN
  \/ IsStr(query.tonnage) /\ NumberOfText(query.tonnage.str) = JNaN

\* values inside the clamp ranges
GradesInRange == 0..6
TonnagesInRange == { 1000, 3000, 6000 }

\* the payload's numbers are finite and its factor is the one of some grade
\* and tonnage inside the clamp ranges
FiniteAsClamped(p) ==
  /\ \E g \in GradesInRange : \E t \in TonnagesInRange :
       p.meta.efPerKm = JNum(efPerKm(p.meta.cargo, p.meta.loco, g, t))
  /\ \A i \in 1..Len(p.routes) : p.routes[i].co2_tons # JNaN
  /\ p.eco.savingsPercent # JNaN

\* C24: for a request whose grade or tonnage is malformed, the emission
\* factor, every segment's co2_tons and savingsPercent are finite numbers
\* equal to those of some grade and tonnage inside the clamp ranges.
C24_MalformedNormalized ==
  \A r \in ScoreReq :
    (pc[r] = "cacheSet" /\ req[r].kind = "mapRoutes" /\ Malformed(req[r].query))
      => FiniteAsClamped(loc[r].payload)

\* grade=abc was answered 200 with efPerKm, co2_tons and savingsPercent all
\* null (NaN serialized)
C24_Witness ==
  \E r \in ScoreReq :
    /\ pc[r] = "done" /\ req[r].kind = "mapRoutes"
    /\ req[r].query.grade = JStr("abc")
    /\ req[r].query.tonnage = JUndef
    /\ resp[r].status = 200
    /\ resp[r].body.meta.grade = JNull
    /\ resp[r].body.meta.efPerKm = JNull
    /\ \A i \in 1..Len(resp[r].body.routes) : resp[r].body.routes[i].co2_tons = JNull
    /\ resp[r].body.eco.savingsPercent = JNull
    /\ resp[r].body.eco.bestIndex = 0

\* ------------------------------------------------------------------ C25
\* the report of request r is written
Reported(r) == pc[r] = "done" /\ req[r].kind = "exportPdf"

\* C25: for every cargo, locomotive, grade and tonnage a query string
\* carries, the emission factor the report prints is the one the scoring
\* endpoint computes from the same query string (NaN for NaN).
C25_SameFactor ==
  \A r \in ScoreReq :
    Reported(r) =>
      LET q == ParseQuery(req[r].query)
      IN resp[r].factors.efPerKm = efPerKmOf(q.cargo, q.loco, q.grade, q.tonnage)

\* a report for coal, electric, grade 10, tonnage 9000 printed the factor of
\* the clamped values, which differs from the factor of the defaults
C25_Witness ==
  \E r \in ScoreReq :
    /\ Reported(r)
    /\ req[r].query.cargo = JStr("coal") /\ req[r].query.loco = JStr("electric")
    /\ req[r].query.grade = JStr("10") /\ req[r].query.tonnage = JStr("9000")
    /\ resp[r].factors.efPerKm = JNum(efPerKm("coal", "electric", 6, 6000))
    /\ resp[r].factors.efPerKm # JNum(efPerKm("ore", "diesel", 0, 3000))

\* ------------------------------------------------------------------ C26
\* the labels of a list of segments, in order
LabelsOf(segs) == [i \in 1..Len(segs) |-> segs[i].label]

\* the segments the scoring endpoint resolves for a query string when the
\* store gives it the stations seq (the statuses left aside)
ScoringLabels(query, seq) ==
  LET rk == ParseQuery(query).routeKey
  IN LabelsOf(SegmentsFor(rk, seq, [i \in 1..PicksNeeded(rk, seq) |-> "clear"]))

\* C26: for every route key and every answer of the store, the report lists
\* the segments the scoring endpoint resolves for the same query string, an
\* unrecognized or absent key included.
C26_SameSegments ==
  \A r \in ScoreReq :
    Reported(r) => LabelsOf(resp[r].routes) = ScoringLabels(req[r].query, loc[r].seq)

\* a report without a route key listed the four hops of BKSC-DGR, where the
\* scoring endpoint resolves the two default segments
C26_Witness ==
  \E r \in ScoreReq :
    /\ Reported(r)
    /\ req[r].query.routeKey = JUndef
    /\ LabelsOf(resp[r].routes) = DgrHops
    /\ ScoringLabels(req[r].query, loc[r].seq) = << "YardA→YardB", "YardA→Alt" >>

\* ------------------------------------------------------------------ C27
\* the step in which the store creates the dispatch record of request r
CreatesRow(r) == pc[r] = "create" /\ pc'[r] = "update"

\* C27: whenever the store creates a dispatch record, under any interleaving
\* of dispatch and confirm-loading requests, the record's prevHash is the
\* prevHash of the block the same dispatch appended to the ledger, its hash
\* is that block's hash, and the block is still at its place in the ledger.
C27_RowMatchesBlock ==
  [][\A r \in Req :
       CreatesRow(r) =>
         /\ Len(dbDispatch') = Len(dbDispatch) + 1
         /\ LET row == dbDispatch'[Len(dbDispatch')]
            IN /\ JStr(row.prevHash) = Get(loc[r].block, "prevHash")
               /\ JStr(row.hash) = Get(loc[r].block, "hash")
               /\ ledger[loc[r].pos] = loc[r].block
               /\ JStr(row.prevHash) = PrevHashAt(loc[r].pos)
               /\ JStr(row.hash) = HashAt(loc[r].pos)]_vars

\* two dispatches with a confirm-loading between them had their records
\* created in the reverse order of their blocks, the later one carrying the
\* hash of the LOADING_CONFIRMED block as prevHash
C27_Witness ==
  /\ Len(ledger) = 3 /\ Len(dbDispatch) = 2
  /\ TypeAt(1) = "DISPATCH" /\ TypeAt(2) = "LOADING_CONFIRMED" /\ TypeAt(3) = "DISPATCH"
  /\ JStr(dbDispatch[1].hash) = HashAt(3) /\ JStr(dbDispatch[1].prevHash) = HashAt(2)
  /\ JStr(dbDispatch[2].hash) = HashAt(1) /\ dbDispatch[2].prevHash = GENESIS

\* ------------------------------------------------------------------ C28
\* the store holds the dispatch record of request r
HasRow(r) == \E i \in 1..Len(dbDispatch) : JStr(dbDispatch[i].hash) = Get(loc[r].block, "hash")

\* the block of request r is at its place in the ledger
BlockStays(r) == loc[r].pos \in 1..Len(ledger') /\ ledger'[loc[r].pos] = loc[r].block

\* C28: in a dispatch the block is in the ledger before any store write and
\* is never taken back: a dispatch record is created only for a block already
\* appended; when the create fails the block stays, nothing is written to the
\* store and the handler ends; a rake's status changes only to DISPATCHED and
\* only by a dispatch whose record was created before.
C28_AppendFirstNoRollback ==
  [][/\ Len(ledger') >= Len(ledger) /\ SubSeq(ledger', 1, Len(ledger)) = ledger
     /\ dbDispatch' # dbDispatch =>
          \E r \in Req : CreatesRow(r) /\ ledger[loc[r].pos] = loc[r].block
     /\ \A r \in Req :
          (pc[r] = "create" /\ pc'[r] = "done") =>
            /\ BlockStays(r) /\ ~HasRow(r)
            /\ dbDispatch' = dbDispatch /\ dbRake' = dbRake
            /\ resp'[r].status = 200 /\ resp'[r].body = loc[r].block
     /\ dbRake' # dbRake =>
          \E r \in Req :
            /\ pc[r] = "update" /\ pc'[r] = "done"
            /\ HasRow(r) /\ BlockStays(r)
            /\ dbRake' = [dbRake EXCEPT ![RakeCode(req[r].rakeId)] = "DISPATCHED"]]_vars

\* a dispatch whose create failed has ended: its block is in the ledger,
\* there is no record and the rake is still PENDING
C28_Witness ==
  \E r \in Req :
    /\ pc[r] = "done" /\ req[r].kind \in { "ledgerDispatch", "yardDispatch" }
    /\ "prevHash" \in DOMAIN loc[r]
    /\ ledger[loc[r].pos] = loc[r].block
    /\ dbDispatch = << >>
    /\ dbRake[RakeCode(req[r].rakeId)] = "PENDING"
    /\ resp[r].status = 200

\* ------------------------------------------------------------------ C29
\* the cache key and TTL of request r, from its endpoint and query string
\* alone
OwnKey(r) ==
  IF req[r].kind = "kpis" THEN KpisCacheKey
  ELSE LET q == ParseQuery(req[r].query)
       IN RoutesCacheKey(q.cargo, q.loco, q.grade, q.tonnage, q.routeKey)
OwnTtl(r) == IF req[r].kind = "kpis" THEN KpisTtl ELSE RoutesTtl

\* C29: whatever tier a result was computed from (the store, a preset or the
\* default route, the mock KPIs), redis.set stores it under the request's
\* key with the endpoint's TTL; and a request that finds a live entry under
\* its key is answered with it without consulting the store, connected or
\* not.
C29_FallbackCachedAlike ==
  [][\A r \in ScoreReq :
       /\ (pc[r] = "cacheSet" /\ loc'[r].wrote) =>
            /\ OwnKey(r) \in DOMAIN cache'
            /\ cache'[OwnKey(r)].val = JsonPayload(loc[r].payload)
            /\ cache'[OwnKey(r)].exp = now + OwnTtl(r)
       /\ (pc[r] = "cacheGet" /\ pc'[r] # "cacheGet" /\ loc[r].getIssued
             /\ Live(OwnKey(r), now) /\ ~loc'[r].getFailed) =>
            /\ pc'[r] = "done"
            /\ resp'[r] = [status |-> 200, body |-> cache[OwnKey(r)].val]
            /\ ~loc'[r].queried /\ ~loc'[r].computed]_vars

\* the store lookup of BKSC-ROU threw, the preset's two segments were
\* cached, and a later request was answered with them from the cache, the
\* store (which holds the route) not being asked
C29_Witness ==
  \E w \in ScoreReq : \E r \in ScoreReq :
    /\ w # r /\ pc[w] = "done" /\ pc[r] = "done" /\ prisma
    /\ req[w].kind = "mapRoutes" /\ req[r].kind = "mapRoutes"
    /\ loc[w].queried /\ loc[w].wrote
    /\ LabelsOf(resp[w].body.routes) = << "BKSC→Purulia", "Purulia→ROU" >>
    /\ loc[r].hit /\ loc[r].from = w /\ ~loc[r].queried
    /\ loc[r].gotAt < loc[w].exp
    /\ resp[r] = resp[w]

\* the counts of GET /kpis threw, the mock payload was cached for KpisTtl
\* seconds, and a later request was answered with it from the cache
C29_KpisWitness ==
  \E w \in ScoreReq : \E r \in ScoreReq :
    /\ w # r /\ pc[w] = "done" /\ pc[r] = "done" /\ prisma
    /\ req[w].kind = "kpis" /\ req[r].kind = "kpis"
    /\ loc[w].queried /\ loc[w].wrote
    /\ resp[w].body = KpisFallback
    /\ loc[r].hit /\ loc[r].from = w /\ ~loc[r].queried
    /\ loc[r].gotAt > 0 /\ loc[r].gotAt < loc[w].exp
    /\ resp[r].body = KpisFallback
================================================================
